---- MODULE Spec2Model ----
(***************************************************************************)
(* A state-machine model of the evaluation / routing service:              *)
(*   - the MCP client (external_mcp_client.py): handshake, tools/list,     *)
(*     tools/call, retries, session id and initialized flag;               *)
(*   - the plugin manager (plugin_manager.py): load / execute / unload;    *)
(*   - the semantic router's multi-step execution (semantic_router.py);    *)
(*   - the evaluation endpoint's enrichment phase (proxy/router.py);       *)
(*   - the external process supervisor (external_mcp_process.py).          *)
(* Each subsystem has its own next-state relation and specification; the   *)
(* variables of the other subsystems stay at their initial values.         *)
(***************************************************************************)
EXTENDS Integers, Sequences, FiniteSets, TLC

\* ------------------------------------------------------------------------
\* Bounds of the model
\* ------------------------------------------------------------------------
\* Number of coroutines (API requests) that share one MCP client, one
\* plugin manager or one process supervisor.
NTasks == 1
\* Number of concurrent API requests in the specifications that study a
\* client or a plugin manager shared between requests.
NCallers == 2
\* Session ids the server may issue are 1..MaxSid; 0 stands for "no id".
MaxSid == 2

\* ------------------------------------------------------------------------
\* Program constants
\* ------------------------------------------------------------------------
DEFAULT_MAX_RETRIES == 3

VARIABLES
    \* --- ExternalMCPClient fields ---
    session,        \* aiohttp session: "none" | "open" | "closed"
    session_id,     \* 0 (None) or the captured mcp-session-id
    initialized,    \* the initialized flag
    \* --- one entry per coroutine using the client ---
    pc,             \* where the coroutine is suspended
    op,             \* the public method it is running
    attempt,        \* the retry loop's variable
    result,         \* how its last public method ended
    \* --- history of the wire ---
    lastSent,       \* the last JSON-RPC request handed to the transport
    hs,             \* progress of the most recent handshake on the wire
    lastIssued      \* the initialize responses so far: seen (any with
                    \* status 200), sid (the header of the most recent one,
                    \* 0 if it had none), id (the most recent id issued)

VARIABLES
    \* --- PluginManager fields ---
    available_plugins,  \* names of the discovered plugin classes
    loaded_plugins,     \* names with a live instance in the registry
    \* --- one entry per coroutine calling the plugin manager ---
    pmPc,               \* where the coroutine is suspended
    pmOp,               \* the manager method it is running
    pmReq,              \* the plugin name and request it was called with
    pmRes,              \* how its last manager method ended
    validateReturned,   \* what validate_request returned for pmReq
    executeCalled,      \* whether plugin.execute was called for pmReq
    executeRaised,      \* what plugin.execute raised for pmReq, if anything
    pmWasLoaded,        \* whether the name was in the registry at the call
    pmConstructed,      \* whether the call constructed a plugin instance
    \* --- reload_plugins of each coroutine ---
    pmPending,          \* names of the snapshot still to be unloaded
    pmSnapshot,         \* the names loaded when reload_plugins was called
    pmShutdownCalled,   \* names whose shutdown the reload has called
    \* --- which of the repository's two plugin_manager.py is running ---
    pmCopy              \* "server" (server/src/core) | "core" (src/core)

VARIABLES
    \* --- SemanticRouter.execute_multi_step ---
    rtPc,           \* "idle" | "executing" | "done"
    rtPlan,         \* the plan being executed: a sequence of steps
    rtIdx,          \* the loop variable i
    responses,      \* the list of responses gathered so far
    rtInvoked,      \* indices of the steps the plugin manager was invoked for
    rtOutcome,      \* how execute_multi_step ended
    rtRequest       \* the PluginRequest issued for step rtIdx

VARIABLES
    \* --- evaluate_applicant (one request) ---
    evPc,             \* position of the handler
    evReq,            \* the request's enrichment-related fields
    ev_observer,      \* the observer field of the request's PluginManager
    enrichment_log,   \* the per-request log, a sequence of entries
    enrichment_data,  \* "none" | "linkedin" | "pdf" | "combined"
    evFailed,         \* whether some enrichment step failed
    evProviderCalled, \* whether provider.generate was called
    evOutcome,        \* how the handler ended
    evText            \* the sections of the response text

VARIABLES
    \* --- ExternalMCPProcess and its children ---
    process,        \* 0 (None) or the id of the child held in self.process
    alive,          \* ids of the children that are running
    reaped,         \* ids of the children whose returncode is set
    ignoresTerm,    \* ids of the children that do not exit on SIGTERM
    terminated,     \* ids of the children terminate() signalled
    nextChild,      \* id the next spawned child gets
    \* --- one entry per coroutine calling the supervisor ---
    spPc,           \* where the coroutine is suspended
    spOp,           \* the supervisor method it is running
    spChild,        \* the child its start() spawned (0: none)
    polls,          \* iterations of start()'s polling loop so far
    healthOk,       \* whether a health check of its start() succeeded
    timedOut,       \* whether its start() left the loop by timeout
    spRet,          \* what its last method returned
    justStopped     \* stop() was the last method call to return

VARIABLES
    \* --- AgenticFramework.process_with_reflection ---
    rfPc,           \* where the coroutine is
    max_attempts,   \* the local max_attempts after the `or`
    attempts,       \* the local attempts
    current_query,  \* "original" | "improved"
    all_results,    \* the local all_results
    rfResult,       \* the result of execute in the current attempt
    rfImproved,     \* what the last _improve_query returned
    rfOutcome       \* "none" | "raised" | the result returned

VARIABLES
    \* --- the Anthropic adapters ---
    apMessages,     \* the messages handed to the adapter
    apPc,           \* "start" | "call" | "sent"
    apEntry,        \* the method the caller used
    apRequest,      \* the messages of the ProviderRequest generate builds
    apBody          \* the request body posted to the API

VARIABLES
    \* --- extract_multi_axis_scores ---
    exText,         \* the LLM output, a sequence of words
    exKeywords,     \* axis_keywords, in the dictionary's order
    exPc,           \* "idle" | "start" | "done"
    exScores        \* the list of AxisScore returned

VARIABLES
    \* --- the plugin instances, one of each class ---
    is_initialized, \* the flag _initialized of each instance
    plPc,           \* "idle" | "initialize" | "shutdown": the method running
    plLast          \* the lifecycle method that completed last, if any

VARIABLES
    \* --- SemanticRouter.route / execute_single ---
    roPc,           \* "idle" | "await_llm" | "routed" | "done"
    roAvailable,    \* the names get_all_plugin_metadata returned
    roQuery,        \* the kind of query being routed
    roDecision,     \* the RoutingDecision route returned, if any
    roOutcome,      \* how route ended: "none" | "decision" | an exception
    roRequest,      \* the PluginRequest execute_single constructed, if any
    roTarget        \* the plugin name passed to execute_plugin, if any

mcpVars == <<session, session_id, initialized, pc, op, attempt, result,
             lastSent, hs, lastIssued>>

pmVars == <<available_plugins, loaded_plugins, pmPc, pmOp, pmReq, pmRes,
            validateReturned, executeCalled, executeRaised, pmWasLoaded,
            pmConstructed, pmPending, pmSnapshot, pmShutdownCalled, pmCopy>>

rtVars == <<rtPc, rtPlan, rtIdx, responses, rtInvoked, rtOutcome, rtRequest>>

evVars == <<evPc, evReq, ev_observer, enrichment_log, enrichment_data,
            evFailed, evProviderCalled, evOutcome, evText>>

spVars == <<process, alive, reaped, ignoresTerm, terminated, nextChild,
            spPc, spOp, spChild, polls, healthOk, timedOut, spRet,
            justStopped>>

rfVars == <<rfPc, max_attempts, attempts, current_query, all_results,
            rfResult, rfImproved, rfOutcome>>

apVars == <<apMessages, apPc, apEntry, apRequest, apBody>>

exVars == <<exText, exKeywords, exPc, exScores>>

plVars == <<is_initialized, plPc, plLast>>

roVars == <<roPc, roAvailable, roQuery, roDecision, roOutcome, roRequest,
            roTarget>>

vars == <<mcpVars, pmVars, rtVars, evVars, spVars, rfVars, apVars, exVars, plVars, roVars>>

\* ========================================================================
\* MCP protocol constants (mcp_constants.py)
\* ========================================================================
INITIALIZE == "initialize"
INITIALIZED == "notifications/initialized"
LIST_TOOLS == "tools/list"
CALL_TOOL == "tools/call"
SUCCESS_STATUS_CODES == {200, 202}

Tasks == 1..NTasks
Sids == 0..MaxSid

\* ========================================================================
\* SSE parser (sse_parser.py)
\* ========================================================================
\* The body of an HTTP 200 reply, by what the parser can find in it:
\*   "result"        data: {"result": {"tools"/"content": ...}}
\*   "result_other"  data: {"result": <something without tools/content>}
\*   "error"         data: {"error": {"message": ...}}
\*   "invalid"       data without result and without error (or not JSON)
\*   "empty"         no text, or no data line: extract raises SSEParseError
Bodies == {"result", "result_other", "error", "invalid", "empty"}

\* parse_mcp_result never raises: it catches SSEParseError itself.
parse_mcp_result(body) ==
    CASE body \in {"result", "result_other"} ->
            [success |-> TRUE, raised |-> FALSE, error_msg |-> "none"]
      [] body = "error" ->
            [success |-> FALSE, raised |-> FALSE, error_msg |-> "server error"]
      [] body = "invalid" ->
            [success |-> FALSE, raised |-> FALSE,
             error_msg |-> "Invalid MCP response format"]
      [] OTHER ->
            [success |-> FALSE, raised |-> FALSE,
             error_msg |-> "No data found in SSE response"]

\* ========================================================================
\* MCPToolResponse (external_mcp_models.py)
\* ========================================================================
\* The pydantic constructor: `content` is required, `isError` defaults to
\* False, unknown keyword arguments are ignored.  kwargs is the record of
\* keyword arguments the caller passes.
MCPToolResponse(kwargs) ==
    IF "content" \in DOMAIN kwargs
    THEN [valid |-> TRUE, content |-> kwargs.content,
          isError |-> IF "isError" \in DOMAIN kwargs THEN kwargs.isError
                      ELSE FALSE]
    ELSE [valid |-> FALSE, content |-> <<>>, isError |-> FALSE]

\* ========================================================================
\* HTTP replies
\* ========================================================================
\* What the transport gives back for one POST: an exception (timeout,
\* connection error), or a status with a body and, for initialize, a
\* session-id header (0: the header is absent).
Replies ==
    {[exc |-> TRUE, status |-> 0, body |-> "empty", sid |-> 0]}
    \cup {[exc |-> FALSE, status |-> 200, body |-> b, sid |-> s] :
             b \in Bodies, s \in Sids}
    \cup {[exc |-> FALSE, status |-> st, body |-> "empty", sid |-> 0] :
             st \in {202, 500}}

\* Replies to requests other than initialize: the session-id header of the
\* reply is never read.
PlainReplies == {r \in Replies : r.sid = 0}

\* ========================================================================
\* ExternalMCPClient (external_mcp_client.py)
\* ========================================================================
NoResult ==
    [kind |-> "none", exc |-> "none", content |-> <<>>, isError |-> FALSE,
     exhausted |-> FALSE]

Returned(content, isError, exhausted) ==
    [kind |-> "return", exc |-> "none", content |-> content,
     isError |-> isError, exhausted |-> exhausted]

Raised(exc, exhausted) ==
    [kind |-> "raise", exc |-> exc, content |-> <<>>, isError |-> FALSE,
     exhausted |-> exhausted]

NoRequest == [m |-> "none", hdr |-> 0]

\* A client that never attaches the session-id header.
build_mcp_headers_NoSessionId(sid) == 0

\* _build_mcp_headers: the mcp-session-id header is added only when the
\* client holds a session id (0: no header).
_build_mcp_headers(sid) == IF sid # 0 THEN sid ELSE 0

\* The request handed to session.post: its method and its mcp-session-id
\* header.  sid is the client's session id at that moment.  The initialize
\* request never carries the header.
Request(method, sid) ==
    [m |-> method,
     hdr |-> IF method = INITIALIZE THEN 0 ELSE _build_mcp_headers(sid)]

\* session.post raises before anything is sent when there is no session
\* (AttributeError on None) or the session is closed (RuntimeError).
CanPost == session = "open"

\* The public method of coroutine t ends.
Finish(t, res) ==
    /\ pc' = [pc EXCEPT ![t] = "idle"]
    /\ result' = [result EXCEPT ![t] = res]

\* --- _initialize_mcp_session / _send_initialize_request -----------------
\* Start of the handshake on behalf of public method `method`: the
\* initialize request is posted, without a session-id header.
BeginHandshake(t, method) ==
    /\ op' = [op EXCEPT ![t] = method]
    /\ attempt' = [attempt EXCEPT ![t] = 0]
    /\ IF CanPost
       THEN /\ lastSent' = Request(INITIALIZE, session_id)
            /\ hs' = [st |-> "initSent", by |-> t]
            /\ pc' = [pc EXCEPT ![t] = "await_initialize"]
            /\ result' = [result EXCEPT ![t] = NoResult]
       ELSE /\ Finish(t, Raised("SessionUnusable", FALSE))
            /\ UNCHANGED <<lastSent, hs>>
    /\ UNCHANGED <<session, session_id, initialized, lastIssued>>

\* initialize_session(): performs the handshake, whatever the flag says.
initialize_session(t) ==
    /\ pc[t] = "idle"
    /\ BeginHandshake(t, "initialize_session")

\* The reply to the initialize request arrives.  On 200 the session id is
\* captured from the header if present, then the body is parsed; on success
\* the initialized notification is posted right away.
InitializeReply(t, r) ==
    /\ pc[t] = "await_initialize"
    /\ r \in Replies
    /\ LET sid2 == IF ~r.exc /\ r.status = 200 /\ r.sid # 0 THEN r.sid
                   ELSE session_id
           parsed == parse_mcp_result(r.body)
           good == ~r.exc /\ r.status = 200 /\ parsed.success /\ CanPost
           failHs == IF hs.by = t THEN [st |-> "failed", by |-> t] ELSE hs
       IN /\ session_id' = sid2
          /\ lastIssued' = IF ~r.exc /\ r.status = 200
                           THEN [seen |-> TRUE, sid |-> r.sid,
                                 id |-> IF r.sid # 0 THEN r.sid
                                        ELSE lastIssued.id]
                           ELSE lastIssued
          /\ IF good
             THEN /\ lastSent' = Request(INITIALIZED, sid2)
                  /\ hs' = [st |-> "notifSent", by |-> t]
                  /\ pc' = [pc EXCEPT ![t] = "await_initialized"]
                  /\ UNCHANGED result
             ELSE /\ Finish(t, Raised(IF r.exc THEN "ClientError"
                                      ELSE IF r.status = 200 /\ parsed.success
                                      THEN "SessionUnusable"
                                      ELSE "MCPProtocolError", FALSE))
                  /\ hs' = failHs
                  /\ UNCHANGED lastSent
    /\ UNCHANGED <<session, initialized, op, attempt>>

\* The delay slept between attempts, in half seconds (2 * retry_delay):
\* retry_delay = min(2 ** (attempt - 1), 60), with the loop variable attempt
\* of the method that computes it, so 2 ** -1 = 0.5 is the value 1 here.
retry_delay(att) ==
    IF 2 ^ att < 120 THEN 2 ^ att ELSE 120

\* The number of attempts made so far by the loop of coroutine t:
\* list_tools counts its attempts from 0, call_tool from 1.
attempts_made(t) ==
    IF op[t] = "list_tools" THEN attempt[t] + 1 ELSE attempt[t]

\* Coroutine t is inside the asyncio.sleep of a retry loop.
sleeping(t) == pc[t] \in {"sleep_list", "sleep_call"}

\* One attempt of the tools/list loop: the POST is inside the try block.
PostListTools(t, att) ==
    /\ attempt' = [attempt EXCEPT ![t] = att]
    /\ IF CanPost
       THEN /\ lastSent' = Request(LIST_TOOLS, session_id)
            /\ pc' = [pc EXCEPT ![t] = "await_list"]
            /\ UNCHANGED result
       ELSE \* the exception is caught and logged
            /\ UNCHANGED lastSent
            /\ IF att < DEFAULT_MAX_RETRIES - 1
               THEN /\ pc' = [pc EXCEPT ![t] = "sleep_list"]
                    /\ UNCHANGED result
               ELSE Finish(t, Returned(<<>>, FALSE, TRUE))

\* One attempt of call_tool (_execute_tool_call): the POST is not inside
\* any try block.
PostCallTool(t, att) ==
    /\ attempt' = [attempt EXCEPT ![t] = att]
    /\ IF CanPost
       THEN /\ lastSent' = Request(CALL_TOOL, session_id)
            /\ pc' = [pc EXCEPT ![t] = "await_call"]
            /\ result' = [result EXCEPT ![t] = NoResult]
       ELSE /\ UNCHANGED lastSent
            /\ Finish(t, Raised("SessionUnusable", FALSE))

\* The reply to the initialized notification arrives.  200 and 202 complete
\* the handshake: the flag is set and the public method goes on.
InitializedReply(t, r) ==
    /\ pc[t] = "await_initialized"
    /\ r \in PlainReplies
    /\ IF ~r.exc /\ r.status \in SUCCESS_STATUS_CODES
       THEN /\ initialized' = TRUE
            /\ hs' = IF hs.by = t THEN [st |-> "complete", by |-> t] ELSE hs
            /\ CASE op[t] = "list_tools" -> PostListTools(t, 0)
                 [] op[t] = "call_tool" -> PostCallTool(t, 1)
                 [] OTHER -> /\ Finish(t, Returned(<<>>, FALSE, FALSE))
                             /\ UNCHANGED <<lastSent, attempt>>
       ELSE /\ Finish(t, Raised(IF r.exc THEN "ClientError"
                                ELSE "MCPProtocolError", FALSE))
            /\ hs' = IF hs.by = t THEN [st |-> "failed", by |-> t] ELSE hs
            /\ UNCHANGED <<initialized, lastSent, attempt>>
    /\ UNCHANGED <<session, session_id, op, lastIssued>>

\* --- list_tools ----------------------------------------------------------
\* list_tools() starts with initialize_session(), outside the retry loop.
list_tools(t) ==
    /\ pc[t] = "idle"
    /\ BeginHandshake(t, "list_tools")

ListToolsReply(t, r) ==
    /\ pc[t] = "await_list"
    /\ r \in PlainReplies
    /\ LET parsed == parse_mcp_result(r.body)
       IN IF ~r.exc /\ r.status = 200
          THEN \* every branch under status 200 returns
               Finish(t, Returned(IF parsed.success /\ r.body = "result"
                                  THEN <<"tool">> ELSE <<>>, FALSE, FALSE))
          ELSE IF attempt[t] < DEFAULT_MAX_RETRIES - 1
               THEN /\ pc' = [pc EXCEPT ![t] = "sleep_list"]
                    /\ UNCHANGED result
               ELSE Finish(t, Returned(<<>>, FALSE, TRUE))
    /\ UNCHANGED <<session, session_id, initialized, op, attempt, lastSent,
                   hs, lastIssued>>

ListToolsWake(t) ==
    /\ pc[t] = "sleep_list"
    /\ PostListTools(t, attempt[t] + 1)
    /\ UNCHANGED <<session, session_id, initialized, op, hs, lastIssued>>

\* --- call_tool -----------------------------------------------------------
call_tool(t) ==
    /\ pc[t] = "idle"
    /\ IF ~initialized
       THEN BeginHandshake(t, "call_tool")
       ELSE /\ op' = [op EXCEPT ![t] = "call_tool"]
            /\ PostCallTool(t, 1)
            /\ UNCHANGED <<session, session_id, initialized, hs, lastIssued>>

\* The response built when every attempt has returned None.
ExhaustedResponse ==
    MCPToolResponse([success |-> FALSE, error |-> "Failed to call tool",
                     result |-> "None"])

CallToolReply(t, r) ==
    /\ pc[t] = "await_call"
    /\ r \in PlainReplies
    /\ LET parsed == parse_mcp_result(r.body)
           okResp == MCPToolResponse(
                        [content |-> IF r.body = "result" THEN <<"data">>
                                     ELSE <<>>,
                         isError |-> FALSE])
           errResp == MCPToolResponse(
                        [content |-> <<"Error: " \o parsed.error_msg>>,
                         isError |-> TRUE])
           final == ExhaustedResponse
       IN IF r.exc
          THEN \* nothing catches the transport's exception
               Finish(t, Raised("ClientError",
                                attempt[t] = DEFAULT_MAX_RETRIES))
          ELSE IF r.status = 200
          THEN IF parsed.success
               THEN Finish(t, Returned(okResp.content, okResp.isError, FALSE))
               ELSE Finish(t, Returned(errResp.content, errResp.isError, FALSE))
          ELSE \* _execute_tool_call returned None
               IF attempt[t] < DEFAULT_MAX_RETRIES
               THEN /\ pc' = [pc EXCEPT ![t] = "sleep_call"]
                    /\ UNCHANGED result
               ELSE IF final.valid
                    THEN Finish(t, Returned(final.content, final.isError, TRUE))
                    ELSE Finish(t, Raised("ValidationError", TRUE))
    /\ UNCHANGED <<session, session_id, initialized, op, attempt, lastSent,
                   hs, lastIssued>>

CallToolWake(t) ==
    /\ pc[t] = "sleep_call"
    /\ PostCallTool(t, attempt[t] + 1)
    /\ UNCHANGED <<session, session_id, initialized, op, hs, lastIssued>>

\* --- session management --------------------------------------------------
\* __aenter__: a fresh HTTP session is created, whatever was there before.
aenter ==
    /\ session' = "open"
    /\ UNCHANGED <<session_id, initialized, pc, op, attempt, result,
                   lastSent, hs, lastIssued>>

\* __aexit__: closes the HTTP session; the flag and the session id are kept.
aexit ==
    /\ session # "none"
    /\ session' = "closed"
    /\ UNCHANGED <<session_id, initialized, pc, op, attempt, result,
                   lastSent, hs, lastIssued>>

\* close(): closes the HTTP session if there is an open one and clears the
\* flag; the session id is kept.
close ==
    /\ session' = IF session = "open" THEN "closed" ELSE session
    /\ initialized' = FALSE
    /\ UNCHANGED <<session_id, pc, op, attempt, result, lastSent, hs,
                   lastIssued>>

InitMCP ==
    /\ session = "none"
    /\ session_id = 0
    /\ initialized = FALSE
    /\ pc = [t \in Tasks |-> "idle"]
    /\ op = [t \in Tasks |-> "none"]
    /\ attempt = [t \in Tasks |-> 0]
    /\ result = [t \in Tasks |-> NoResult]
    /\ lastSent = NoRequest
    /\ hs = [st |-> "none", by |-> 0]
    /\ lastIssued = [seen |-> FALSE, sid |-> 0, id |-> 0]

\* The MCP client's steps leave the other subsystems alone.
mcpFrame == UNCHANGED <<pmVars, rtVars, evVars, spVars, rfVars, apVars, exVars, plVars, roVars>>

NextMCP ==
    \/ aenter /\ mcpFrame
    \/ aexit /\ mcpFrame
    \/ close /\ mcpFrame
    \/ \E t \in Tasks : initialize_session(t) /\ mcpFrame
    \/ \E t \in Tasks : list_tools(t) /\ mcpFrame
    \/ \E t \in Tasks : call_tool(t) /\ mcpFrame
    \/ \E t \in Tasks, r \in Replies : InitializeReply(t, r) /\ mcpFrame
    \/ \E t \in Tasks, r \in PlainReplies :
          InitializedReply(t, r) /\ mcpFrame
    \/ \E t \in Tasks, r \in PlainReplies : ListToolsReply(t, r) /\ mcpFrame
    \/ \E t \in Tasks : ListToolsWake(t) /\ mcpFrame
    \/ \E t \in Tasks, r \in PlainReplies : CallToolReply(t, r) /\ mcpFrame
    \/ \E t \in Tasks : CallToolWake(t) /\ mcpFrame

\* ========================================================================
\* Plugin interface (plugin_interface.py) and the plugins' metadata
\* ========================================================================
\* Plugin classes found in the plugin directory.
Discoverable == {"calculator", "linkedin_external"}

\* Names a caller may ask for: the discoverable ones and one that is not.
PluginNames == Discoverable \cup {"ghost"}

\* Parameter names a request may carry.
ParamNames == {"expression", "precision"}

\* metadata.required_params of each plugin class.
required_params(name) ==
    IF name = "calculator" THEN {"expression"} ELSE {}

\* Plugin.validate_request: every required parameter is in the request.
validate_request(name, request) ==
    \A param \in required_params(name) : param \in request.parameters

PluginRequests == [name : PluginNames, parameters : SUBSET ParamNames]

NoPluginRequest == [name |-> "none", parameters |-> {}]

\* ========================================================================
\* PluginManager (plugin_manager.py)
\* ========================================================================
\* The reload bookkeeping of the coroutines, which only reload_plugins
\* touches.
pmReload == <<pmPending, pmSnapshot, pmShutdownCalled>>

\* The manager method of coroutine t ends with outcome res.
PmFinish(t, res) ==
    /\ pmPc' = [pmPc EXCEPT ![t] = "idle"]
    /\ pmRes' = [pmRes EXCEPT ![t] = res]

\* A manager method of coroutine t is called: what is recorded about the
\* call.
PmCall(t, method, req) ==
    /\ pmOp' = [pmOp EXCEPT ![t] = method]
    /\ pmReq' = [pmReq EXCEPT ![t] = req]
    /\ pmWasLoaded' = [pmWasLoaded EXCEPT ![t] = req.name \in loaded_plugins]
    /\ executeRaised' = [executeRaised EXCEPT ![t] = "none"]
    /\ pmPending' = [pmPending EXCEPT ![t] = {}]
    /\ pmSnapshot' = [pmSnapshot EXCEPT ![t] = {}]
    /\ pmShutdownCalled' = [pmShutdownCalled EXCEPT ![t] = {}]

\* execute_plugin with its validation removed: execute is always called.
ExecuteUnvalidated(t, req) ==
    /\ validateReturned' = [validateReturned EXCEPT ![t] = "none"]
    /\ executeCalled' = [executeCalled EXCEPT ![t] = TRUE]
    /\ pmPc' = [pmPc EXCEPT ![t] = "executing"]
    /\ pmRes' = [pmRes EXCEPT ![t] = "none"]

\* The try block of execute_plugin up to the call of plugin.execute:
\* validate_request runs without suspending; a false result raises
\* PluginValidationError, which the handler re-raises unchanged.
ValidateAndExecute(t, req) ==
    LET ok == validate_request(req.name, req)
    IN /\ validateReturned' =
              [validateReturned EXCEPT ![t] = IF ok THEN "true" ELSE "false"]
       /\ executeCalled' = [executeCalled EXCEPT ![t] = ok]
       /\ IF ok
          THEN /\ pmPc' = [pmPc EXCEPT ![t] = "executing"]
               /\ pmRes' = [pmRes EXCEPT ![t] = "none"]
          ELSE PmFinish(t, "PluginValidationError")

\* PluginManager.initialize / discover_plugins.
discover_plugins ==
    /\ available_plugins' = Discoverable
    /\ UNCHANGED <<loaded_plugins, pmPc, pmOp, pmReq, pmRes,
                   validateReturned, executeCalled, executeRaised,
                   pmWasLoaded, pmConstructed, pmReload>>

\* What load_plugin returns for a name that is already loaded: the server
\* copy returns the registry's instance, the core copy a bare `return`.
load_plugin_when_loaded(copy) ==
    IF copy = "server" THEN "plugin" ELSE "None"

\* A load_plugin that caches the instance before initialize has returned.
LoadDoneCachingFailures(t, ok) ==
    /\ pmPc[t] = "initializing"
    /\ loaded_plugins' = loaded_plugins \cup {pmReq[t].name}
    /\ PmFinish(t, IF ok THEN "plugin" ELSE "PluginInitializationError")
    /\ UNCHANGED <<available_plugins, pmOp, pmReq, validateReturned,
                   executeCalled, executeRaised, pmWasLoaded, pmConstructed,
                   pmReload>>

\* The body of load_plugin up to the await of plugin.initialize.
BeginLoad(t, name) ==
    IF name \in loaded_plugins
    THEN /\ PmFinish(t, load_plugin_when_loaded(pmCopy))
         /\ pmConstructed' = [pmConstructed EXCEPT ![t] = FALSE]
    ELSE IF name \in available_plugins
    THEN /\ pmPc' = [pmPc EXCEPT ![t] = "initializing"]
         /\ pmRes' = [pmRes EXCEPT ![t] = "none"]
         /\ pmConstructed' = [pmConstructed EXCEPT ![t] = TRUE]
    ELSE /\ PmFinish(t, "PluginNotFoundError")
         /\ pmConstructed' = [pmConstructed EXCEPT ![t] = FALSE]

load_plugin(t, name) ==
    /\ pmPc[t] = "idle"
    /\ PmCall(t, "load_plugin", [name |-> name, parameters |-> {}])
    /\ validateReturned' = [validateReturned EXCEPT ![t] = "none"]
    /\ executeCalled' = [executeCalled EXCEPT ![t] = FALSE]
    /\ BeginLoad(t, name)
    /\ UNCHANGED <<available_plugins, loaded_plugins>>

\* execute_plugin: loads the plugin first when it is available but not
\* loaded; an unknown name raises PluginNotFoundError.
execute_plugin(t, req) ==
    /\ pmPc[t] = "idle"
    /\ PmCall(t, "execute_plugin", req)
    /\ IF req.name \in loaded_plugins
       THEN /\ ValidateAndExecute(t, req)
            /\ pmConstructed' = [pmConstructed EXCEPT ![t] = FALSE]
       ELSE /\ BeginLoad(t, req.name)
            /\ validateReturned' = [validateReturned EXCEPT ![t] = "none"]
            /\ executeCalled' = [executeCalled EXCEPT ![t] = FALSE]
    /\ UNCHANGED <<available_plugins, loaded_plugins>>

\* plugin.initialize(config) returns or raises.  On success the instance is
\* stored; execute_plugin then goes on with the registry's instance.
LoadDone(t, ok) ==
    /\ pmPc[t] = "initializing"
    /\ IF ok
       THEN /\ loaded_plugins' = loaded_plugins \cup {pmReq[t].name}
            /\ IF pmOp[t] = "execute_plugin"
               THEN ValidateAndExecute(t, pmReq[t])
               ELSE /\ PmFinish(t, "plugin")
                    /\ UNCHANGED <<validateReturned, executeCalled>>
       ELSE /\ PmFinish(t, "PluginInitializationError")
            /\ UNCHANGED <<loaded_plugins, validateReturned, executeCalled>>
    /\ UNCHANGED <<available_plugins, pmOp, pmReq, executeRaised,
                   pmWasLoaded, pmConstructed, pmReload>>

\* What plugin.execute(request) can do: return a response, or raise; a
\* plugin may raise any exception, PluginValidationError included.
ExecuteOutcomes == {"response", "Exception", "PluginValidationError"}

\* The exception handlers of execute_plugin around plugin.execute:
\* `except PluginValidationError: raise` comes first, `except Exception`
\* wraps everything else in PluginExecutionError.
execute_handlers(out) ==
    IF out = "response" THEN "response"
    ELSE IF out = "PluginValidationError" THEN "PluginValidationError"
    ELSE "PluginExecutionError"

\* plugin.execute(request) returns a response or raises.
ExecuteDone(t, out) ==
    /\ pmPc[t] = "executing"
    /\ executeRaised' =
          [executeRaised EXCEPT ![t] = IF out = "response" THEN "none" ELSE out]
    /\ PmFinish(t, execute_handlers(out))
    /\ UNCHANGED <<available_plugins, loaded_plugins, pmOp, pmReq,
                   validateReturned, executeCalled, pmWasLoaded,
                   pmConstructed, pmReload>>

\* unload_plugin: awaits plugin.shutdown() when the plugin is loaded.
unload_plugin(t, name) ==
    /\ pmPc[t] = "idle"
    /\ PmCall(t, "unload_plugin", [name |-> name, parameters |-> {}])
    /\ validateReturned' = [validateReturned EXCEPT ![t] = "none"]
    /\ executeCalled' = [executeCalled EXCEPT ![t] = FALSE]
    /\ pmConstructed' = [pmConstructed EXCEPT ![t] = FALSE]
    /\ IF name \in loaded_plugins
       THEN /\ pmPc' = [pmPc EXCEPT ![t] = "shutting_down"]
            /\ pmRes' = [pmRes EXCEPT ![t] = "none"]
       ELSE PmFinish(t, "None")
    /\ UNCHANGED <<available_plugins, loaded_plugins>>

\* plugin.shutdown() returns or raises; the entry is deleted only when it
\* returned, and every exception is logged and swallowed.
UnloadDone(t, ok) ==
    /\ pmPc[t] = "shutting_down"
    /\ loaded_plugins' = IF ok THEN loaded_plugins \ {pmReq[t].name}
                         ELSE loaded_plugins
    /\ PmFinish(t, "None")
    /\ UNCHANGED <<available_plugins, pmOp, pmReq, validateReturned,
                   executeCalled, executeRaised, pmWasLoaded, pmConstructed,
                   pmReload>>

\* The names shutdown_all_plugins still has to unload: unload_plugin does
\* nothing for a name that is no longer in the registry.
ReloadCandidates(pending, loaded) == pending \cap loaded

\* reload_plugins goes on to the unload_plugin of nxt, or, when no name is
\* left, clears available_plugins, runs discover_plugins and returns.
ReloadContinue(t, pending, loaded, nxt) ==
    IF ReloadCandidates(pending, loaded) = {}
    THEN /\ nxt = "none"
         /\ available_plugins' = Discoverable
         /\ pmPending' = [pmPending EXCEPT ![t] = {}]
         /\ pmReq' = [pmReq EXCEPT ![t] = NoPluginRequest]
         /\ PmFinish(t, "None")
    ELSE /\ nxt \in ReloadCandidates(pending, loaded)
         /\ pmPending' = [pmPending EXCEPT ![t] = pending]
         /\ pmReq' = [pmReq EXCEPT ![t] = [name |-> nxt, parameters |-> {}]]
         /\ pmPc' = [pmPc EXCEPT ![t] = "reload_shutdown"]
         /\ pmRes' = [pmRes EXCEPT ![t] = "none"]
         /\ UNCHANGED available_plugins

\* reload_plugins: shutdown_all_plugins iterates over a snapshot of the
\* registry's keys and awaits unload_plugin for each.
reload_plugins(t, nxt) ==
    /\ pmPc[t] = "idle"
    /\ pmOp' = [pmOp EXCEPT ![t] = "reload_plugins"]
    /\ pmSnapshot' = [pmSnapshot EXCEPT ![t] = loaded_plugins]
    /\ pmShutdownCalled' = [pmShutdownCalled EXCEPT ![t] = {}]
    /\ pmWasLoaded' = [pmWasLoaded EXCEPT ![t] = FALSE]
    /\ pmConstructed' = [pmConstructed EXCEPT ![t] = FALSE]
    /\ executeRaised' = [executeRaised EXCEPT ![t] = "none"]
    /\ validateReturned' = [validateReturned EXCEPT ![t] = "none"]
    /\ executeCalled' = [executeCalled EXCEPT ![t] = FALSE]
    /\ ReloadContinue(t, loaded_plugins, loaded_plugins, nxt)
    /\ UNCHANGED loaded_plugins

\* plugin.shutdown() of the plugin being unloaded by reload_plugins returns
\* or raises; unload_plugin deletes the entry only when it returned.
ReloadShutdownDone(t, ok, nxt) ==
    LET name == pmReq[t].name
        loaded == IF ok THEN loaded_plugins \ {name} ELSE loaded_plugins
    IN /\ pmPc[t] = "reload_shutdown"
       /\ loaded_plugins' = loaded
       /\ pmShutdownCalled' =
             [pmShutdownCalled EXCEPT ![t] = pmShutdownCalled[t] \cup {name}]
       /\ ReloadContinue(t, pmPending[t] \ {name}, loaded, nxt)
       /\ UNCHANGED <<pmOp, pmSnapshot, validateReturned, executeCalled,
                      executeRaised, pmWasLoaded, pmConstructed>>

\* PluginManager.shutdown after shutdown_all_plugins: the observer check
\* `hasattr(self, 'observer') and self.observer.is_alive()`.  The attribute
\* always exists; is_alive() on None raises AttributeError.
shutdown_observer_check(obs) ==
    [raises |-> obs = "None", stopped |-> obs = "alive"]

\* The state of a manager used by the coroutines of T, before initialize.
InitManager(T) ==
    /\ available_plugins = {}
    /\ loaded_plugins = {}
    /\ pmPc = [t \in T |-> "idle"]
    /\ pmOp = [t \in T |-> "none"]
    /\ pmReq = [t \in T |-> NoPluginRequest]
    /\ pmRes = [t \in T |-> "none"]
    /\ validateReturned = [t \in T |-> "none"]
    /\ executeCalled = [t \in T |-> FALSE]
    /\ executeRaised = [t \in T |-> "none"]
    /\ pmWasLoaded = [t \in T |-> FALSE]
    /\ pmConstructed = [t \in T |-> FALSE]
    /\ pmPending = [t \in T |-> {}]
    /\ pmSnapshot = [t \in T |-> {}]
    /\ pmShutdownCalled = [t \in T |-> {}]

\* The manager of either copy of plugin_manager.py.
InitPM == InitManager(Tasks) /\ pmCopy \in {"server", "core"}

\* The manager the API server imports.
InitPMServer == InitManager(Tasks) /\ pmCopy = "server"

\* The plugin manager's steps leave the other subsystems alone, and the
\* module that was imported stays the same.
pmFrame ==
    UNCHANGED <<mcpVars, rtVars, evVars, spVars, rfVars, apVars, pmCopy, exVars, plVars, roVars>>

\* The names a reload can be told to unload next ("none": nothing left).
NextNames == PluginNames \cup {"none"}

NextPM ==
    \/ discover_plugins /\ pmFrame
    \/ \E t \in Tasks, n \in PluginNames : load_plugin(t, n) /\ pmFrame
    \/ \E t \in Tasks, req \in PluginRequests :
          execute_plugin(t, req) /\ pmFrame
    \/ \E t \in Tasks, ok \in BOOLEAN : LoadDone(t, ok) /\ pmFrame
    \/ \E t \in Tasks, out \in ExecuteOutcomes : ExecuteDone(t, out) /\ pmFrame
    \/ \E t \in Tasks, n \in PluginNames : unload_plugin(t, n) /\ pmFrame
    \/ \E t \in Tasks, ok \in BOOLEAN : UnloadDone(t, ok) /\ pmFrame
    \/ \E t \in Tasks, nxt \in NextNames : reload_plugins(t, nxt) /\ pmFrame
    \/ \E t \in Tasks, ok \in BOOLEAN, nxt \in NextNames :
          ReloadShutdownDone(t, ok, nxt) /\ pmFrame

\* ========================================================================
\* SemanticRouter.execute_multi_step (semantic_router.py)
\* ========================================================================
\* Longest plan considered.
MaxSteps == 2

\* A step names its plugin and may declare depends_on, a list of step
\* indices (0-based); an absent depends_on is the empty set.
Steps == [plugin_name : Discoverable, depends_on : SUBSET (0..MaxSteps - 1)]

RECURSIVE SeqsUpTo(_, _)
\* All sequences over S of length at most n.
SeqsUpTo(S, n) ==
    IF n = 0 THEN {<<>>}
    ELSE LET shorter == SeqsUpTo(S, n - 1)
         IN shorter \cup {Append(q, x) : q \in {r \in shorter : Len(r) = n - 1},
                                         x \in S}

Plans == SeqsUpTo(Steps, MaxSteps)

\* A dictionary that may hold previous_results, step_index and total_steps,
\* as the set of keys present and their values.
EmptyDict ==
    [keys |-> {}, previous_results |-> <<>>, step_index |-> 0,
     total_steps |-> 0]

\* The context dictionary execute_multi_step prepares for step i.
StepContext(i, n, resp) ==
    [keys |-> {"previous_results", "step_index", "total_steps"},
     previous_results |-> resp, step_index |-> i, total_steps |-> n]

\* dict.get("previous_results", []) on such a dictionary.
previous_results(dict) ==
    IF "previous_results" \in dict.keys THEN dict.previous_results ELSE <<>>

\* The PluginRequest built for a step: parameters_context is
\* parameters["_context"]; context is the request's context field, which
\* the constructor call leaves to its default, an empty dictionary.
StepRequest(parameters_context) ==
    [parameters_context |-> parameters_context, context |-> EmptyDict]

NoStepRequest == StepRequest(EmptyDict)

\* The loop of execute_multi_step building every request with an empty
\* previous_results.
RunStepWithoutResults(plan, i, resp, invoked) ==
    IF i >= Len(plan)
    THEN /\ rtPc' = "done"
         /\ rtOutcome' = "responses"
         /\ rtInvoked' = invoked
         /\ UNCHANGED <<rtIdx, rtRequest>>
    ELSE IF \E dep_idx \in plan[i + 1].depends_on : dep_idx >= i
    THEN /\ rtPc' = "done"
         /\ rtOutcome' = "RoutingDecisionError"
         /\ rtInvoked' = invoked
         /\ UNCHANGED <<rtIdx, rtRequest>>
    ELSE /\ rtPc' = "executing"
         /\ rtOutcome' = "none"
         /\ rtInvoked' = Append(invoked, i)
         /\ rtIdx' = i
         /\ rtRequest' = StepRequest(StepContext(i, Len(plan), <<>>))

\* The loop of execute_multi_step from index i on (i is 0-based): the
\* dependency check of step i, then the request for step i, whose _context
\* holds the list of responses gathered so far (resp), and the call of the
\* plugin manager with it.  The check of a step runs only when the loop
\* reaches it.  The context holds the list object itself, which does not
\* change while the step is awaited.
RunStep(plan, i, resp, invoked) ==
    IF i >= Len(plan)
    THEN /\ rtPc' = "done"
         /\ rtOutcome' = "responses"
         /\ rtInvoked' = invoked
         /\ UNCHANGED <<rtIdx, rtRequest>>
    ELSE IF \E dep_idx \in plan[i + 1].depends_on : dep_idx >= i
    THEN /\ rtPc' = "done"
         /\ rtOutcome' = "RoutingDecisionError"
         /\ rtInvoked' = invoked
         /\ UNCHANGED <<rtIdx, rtRequest>>
    ELSE /\ rtPc' = "executing"
         /\ rtOutcome' = "none"
         /\ rtInvoked' = Append(invoked, i)
         /\ rtIdx' = i
         /\ rtRequest' = StepRequest(StepContext(i, Len(plan), resp))

\* execute_multi_step keeps nothing between calls (responses and the loop
\* index are locals), so one call is followed.
execute_multi_step(plan) ==
    /\ rtPc = "idle"
    /\ rtPlan' = plan
    /\ responses' = <<>>
    /\ RunStep(plan, 0, <<>>, <<>>)

\* The response the plugin manager returned for step i.
StepResponse(i, out) == [step |-> i, status |-> out]

\* plugin_manager.execute_plugin returns a response (whatever its status),
\* which is appended, or raises, which ends execute_multi_step.
StepReturn(out) ==
    /\ rtPc = "executing"
    /\ IF out = "raise"
       THEN /\ rtPc' = "done"
            /\ rtOutcome' = "PluginExecutionError"
            /\ UNCHANGED <<responses, rtInvoked, rtIdx, rtRequest>>
       ELSE /\ responses' = Append(responses, StepResponse(rtIdx, out))
            /\ RunStep(rtPlan, rtIdx + 1,
                       Append(responses, StepResponse(rtIdx, out)), rtInvoked)
    /\ UNCHANGED rtPlan

InitRouter ==
    /\ rtPc = "idle"
    /\ rtPlan = <<>>
    /\ rtIdx = 0
    /\ responses = <<>>
    /\ rtInvoked = <<>>
    /\ rtOutcome = "none"
    /\ rtRequest = NoStepRequest

\* The router's steps leave the other subsystems alone.
rtFrame == UNCHANGED <<mcpVars, pmVars, evVars, spVars, rfVars, apVars, exVars, plVars, roVars>>

NextRouter ==
    \/ \E plan \in Plans : execute_multi_step(plan) /\ rtFrame
    \/ \E out \in {"success", "error", "raise"} : StepReturn(out) /\ rtFrame

\* ========================================================================
\* The evaluation endpoint's enrichment phase (proxy/router.py, plugins.py)
\* ========================================================================
\* The fields of an evaluation request that steer enrichment: use_plugin,
\* the kind of source_url (absent, a linkedin.com URL, any other URL) and
\* whether pdf_url is given.
EvalRequests ==
    [use_plugin : BOOLEAN, source_url : {"none", "linkedin", "other"},
     pdf_url : BOOLEAN]

NoEvalRequest == [use_plugin |-> FALSE, source_url |-> "none", pdf_url |-> FALSE]

\* How one enrichment plugin run can end.
PluginOutcomes == {"success", "load_failed", "execute_failed", "error_status"}

\* process_linkedin_enrichment / process_pdf_enrichment: every failure is
\* caught and logged; the data is returned only on success.
process_enrichment(kind, outcome) ==
    [data |-> outcome = "success",
     log |-> <<kind \o ":" \o outcome>>]

\* A run that was not asked for: nothing is logged.
NotRun == [data |-> FALSE, log |-> <<>>]

evaluate_applicant(req) ==
    /\ evPc \in {"idle", "done"}
    /\ evReq' = req
    /\ enrichment_data' = "none"
    /\ evFailed' = FALSE
    /\ evProviderCalled' = FALSE
    /\ evOutcome' = "none"
    /\ evText' = {}
    /\ IF req.use_plugin /\ req.source_url # "none"
       THEN \* plugin_manager = PluginManager(): auto_reload is off
            /\ ev_observer' = "None"
            /\ enrichment_log' = <<"requested">>
            /\ evPc' = "enriching"
       ELSE /\ ev_observer' = "unset"
            /\ enrichment_log' = <<>>
            /\ evPc' = "provider"

\* The try block of the enrichment phase.  initOk: plugin_manager
\* .initialize() returned; li: how the profile fetch ends; pdf1, pdf2: how
\* the resume parses end.  With pdf_url given the resume is parsed twice
\* (before and after the profile fetch) and the second result is kept;
\* without it a source_url that is not a linkedin.com URL is parsed once.
EnrichmentRun(initOk, li, pdf1, pdf2) ==
    /\ evPc = "enriching"
    /\ evReq.pdf_url \/ pdf1 = pdf2
    /\ LET first == IF evReq.pdf_url
                    THEN process_enrichment("pdf", pdf1) ELSE NotRun
           linkedin == IF evReq.source_url = "linkedin"
                       THEN process_enrichment("linkedin", li) ELSE NotRun
           resume == IF evReq.pdf_url \/ evReq.source_url # "linkedin"
                     THEN process_enrichment("pdf", pdf2) ELSE NotRun
       IN IF ~initOk
          THEN /\ enrichment_log' =
                      Append(enrichment_log, "Plugin enrichment failed")
               /\ evFailed' = TRUE
               /\ UNCHANGED enrichment_data
          ELSE /\ enrichment_log' =
                      enrichment_log \o <<"available">> \o first.log
                                     \o linkedin.log \o resume.log
                      \o (IF resume.data THEN <<>> ELSE <<"unrecognized">>)
               /\ enrichment_data' =
                      IF linkedin.data /\ resume.data THEN "combined"
                      ELSE IF resume.data THEN "pdf"
                      ELSE IF linkedin.data THEN "linkedin" ELSE "none"
               /\ evFailed' = \/ first.log # <<>> /\ ~first.data
                              \/ linkedin.log # <<>> /\ ~linkedin.data
                              \/ resume.log # <<>> /\ ~resume.data
    /\ evPc' = "cleanup"
    /\ UNCHANGED <<evReq, ev_observer, evProviderCalled, evOutcome, evText>>

\* The finally block: await plugin_manager.shutdown().  What it raises
\* leaves evaluate_applicant: the block is outside the second try.
EnrichmentCleanup ==
    /\ evPc = "cleanup"
    /\ IF shutdown_observer_check(ev_observer).raises
       THEN /\ evPc' = "done"
            /\ evOutcome' = "AttributeError"
       ELSE /\ evPc' = "provider"
            /\ UNCHANGED evOutcome
    /\ UNCHANGED <<evReq, ev_observer, enrichment_log, enrichment_data,
                   evFailed, evProviderCalled, evText>>

\* provider.generate is called and returns a completion or raises; the
\* response text gets the enrichment log when the log is not empty.
ProviderReply(ok) ==
    /\ evPc = "provider"
    /\ evProviderCalled' = TRUE
    /\ evPc' = "done"
    /\ IF ok
       THEN /\ evOutcome' = "response"
            /\ evText' = {"completion"}
                  \cup (IF enrichment_log # <<>> THEN {"ENRICHMENT LOG"}
                        ELSE {})
                  \cup (IF enrichment_data \in {"linkedin", "combined"}
                        THEN {"LINKEDIN_DATA"} ELSE {})
                  \cup (IF enrichment_data \in {"pdf", "combined"}
                        THEN {"PDF_RESUME_DATA"} ELSE {})
       ELSE /\ evOutcome' = "HTTPException"
            /\ UNCHANGED evText
    /\ UNCHANGED <<evReq, ev_observer, enrichment_log, enrichment_data,
                   evFailed>>

InitEval ==
    /\ evPc = "idle"
    /\ evReq = NoEvalRequest
    /\ ev_observer = "unset"
    /\ enrichment_log = <<>>
    /\ enrichment_data = "none"
    /\ evFailed = FALSE
    /\ evProviderCalled = FALSE
    /\ evOutcome = "none"
    /\ evText = {}

\* The endpoint's steps leave the other subsystems alone.
evFrame == UNCHANGED <<mcpVars, pmVars, rtVars, spVars, rfVars, apVars, exVars, plVars, roVars>>

NextEval ==
    \/ \E req \in EvalRequests : evaluate_applicant(req) /\ evFrame
    \/ \E initOk \in BOOLEAN, li \in PluginOutcomes,
          pdf1 \in PluginOutcomes, pdf2 \in PluginOutcomes :
          EnrichmentRun(initOk, li, pdf1, pdf2) /\ evFrame
    \/ EnrichmentCleanup /\ evFrame
    \/ \E ok \in BOOLEAN : ProviderReply(ok) /\ evFrame

\* ========================================================================
\* ExternalMCPProcess (external_mcp_process.py)
\* ========================================================================
\* Children one supervisor may spawn in a run of the model.
MaxChildren == 2
\* Iterations of start()'s polling loop before the startup timeout is
\* certain to have passed.
MaxPolls == 2

Children == 1..MaxChildren

\* The event loop is blocked while some coroutine sits in the synchronous
\* Popen.wait() of stop().
Blocked == \E t \in Tasks : spPc[t] = "stop_wait"

\* Popen.poll() is None: the child is still running.
poll_is_None(p) == p \in alive

\* Popen.poll() as a side effect sets returncode once the child has exited.
Reap(p) == IF p # 0 /\ p \notin alive THEN reaped \cup {p} ELSE reaped

\* is_running() without the poll: a handle is held.
is_running_no_poll == process # 0

\* is_running(): a handle is held and the child has not exited.
is_running == process # 0 /\ poll_is_None(process)

\* The supervisor method of coroutine t returns ret; only stop() returns
\* None.
SpReturn(t, ret) ==
    /\ spPc' = [spPc EXCEPT ![t] = "idle"]
    /\ spRet' = [spRet EXCEPT ![t] = ret]
    /\ justStopped' = (ret = "None")

\* The body of stop(), run by coroutine t, which returns ret afterwards
\* (None for stop() itself, False for start()'s timeout path).  With a
\* handle whose returncode is unset: terminate() signals the child if it
\* is running, then the synchronous wait() returns once the child has
\* exited; wait_for() then raises TypeError on the int, which is caught,
\* and the handle is dropped.  A child that ignores the signal keeps the
\* coroutine, and the event loop, in wait().
stop_body(t, ret) ==
    IF process # 0 /\ process \notin reaped
    THEN /\ terminated' = IF process \in alive
                          THEN terminated \cup {process} ELSE terminated
         /\ IF process \in alive /\ process \in ignoresTerm
            THEN /\ spPc' = [spPc EXCEPT ![t] = "stop_wait"]
                 /\ spRet' = [spRet EXCEPT ![t] = ret]
                 /\ UNCHANGED <<process, alive, reaped, justStopped>>
            ELSE /\ alive' = alive \ {process}
                 /\ reaped' = reaped \cup {process}
                 /\ process' = 0
                 /\ SpReturn(t, ret)
    ELSE /\ SpReturn(t, ret)
         /\ UNCHANGED <<process, alive, reaped, terminated>>

\* start() leaving the polling loop by timeout without calling stop().
StartTimeoutNoStop(t) ==
    /\ timedOut' = [timedOut EXCEPT ![t] = TRUE]
    /\ SpReturn(t, "False")
    /\ UNCHANGED <<process, alive, reaped, terminated>>

\* start() leaving the polling loop by timeout: client.close(), stop(),
\* return False.
StartTimeout(t) ==
    /\ timedOut' = [timedOut EXCEPT ![t] = TRUE]
    /\ stop_body(t, "False")

\* A start() without the check of the child it holds: it spawns whenever
\* it is called.
start_always_spawns(t, spawnOk, ig) ==
    /\ spPc[t] = "idle" /\ ~Blocked
    /\ spOp' = [spOp EXCEPT ![t] = "start"]
    /\ polls' = [polls EXCEPT ![t] = 0]
    /\ healthOk' = [healthOk EXCEPT ![t] = FALSE]
    /\ timedOut' = [timedOut EXCEPT ![t] = FALSE]
    /\ reaped' = Reap(process)
    /\ IF ~spawnOk \/ nextChild > MaxChildren
       THEN /\ SpReturn(t, "False")
            /\ spChild' = [spChild EXCEPT ![t] = 0]
            /\ UNCHANGED <<process, alive, ignoresTerm, nextChild>>
       ELSE /\ process' = nextChild
            /\ alive' = alive \cup {nextChild}
            /\ ignoresTerm' = IF ig THEN ignoresTerm \cup {nextChild}
                              ELSE ignoresTerm
            /\ nextChild' = nextChild + 1
            /\ spChild' = [spChild EXCEPT ![t] = nextChild]
            /\ spPc' = [spPc EXCEPT ![t] = "health"]
            /\ spRet' = [spRet EXCEPT ![t] = "none"]
            /\ justStopped' = FALSE
    /\ UNCHANGED terminated

\* start(): returns True at once when a running child is held; otherwise
\* spawns (Popen may raise, which returns False) and enters the loop with
\* a first health check.  ig: whether the new child ignores SIGTERM.
start(t, spawnOk, ig) ==
    /\ spPc[t] = "idle" /\ ~Blocked
    /\ spOp' = [spOp EXCEPT ![t] = "start"]
    /\ polls' = [polls EXCEPT ![t] = 0]
    /\ healthOk' = [healthOk EXCEPT ![t] = FALSE]
    /\ timedOut' = [timedOut EXCEPT ![t] = FALSE]
    /\ reaped' = Reap(process)
    /\ IF process # 0 /\ poll_is_None(process)
       THEN /\ SpReturn(t, "True")
            /\ spChild' = [spChild EXCEPT ![t] = 0]
            /\ UNCHANGED <<process, alive, ignoresTerm, nextChild>>
       ELSE IF ~spawnOk \/ nextChild > MaxChildren
       THEN /\ SpReturn(t, "False")
            /\ spChild' = [spChild EXCEPT ![t] = 0]
            /\ UNCHANGED <<process, alive, ignoresTerm, nextChild>>
       ELSE /\ process' = nextChild
            /\ alive' = alive \cup {nextChild}
            /\ ignoresTerm' = IF ig THEN ignoresTerm \cup {nextChild}
                              ELSE ignoresTerm
            /\ nextChild' = nextChild + 1
            /\ spChild' = [spChild EXCEPT ![t] = nextChild]
            /\ spPc' = [spPc EXCEPT ![t] = "health"]
            /\ spRet' = [spRet EXCEPT ![t] = "none"]
            /\ justStopped' = FALSE
    /\ UNCHANGED terminated

\* client.health_check() returns.  True ends start() with True.  Otherwise
\* self.process.poll() is consulted: on None (the handle was dropped by a
\* concurrent stop) the AttributeError is caught and start() returns False;
\* a child that has exited makes start() return False, the handle stays;
\* else the coroutine sleeps.
HealthReply(t, ok) ==
    /\ spPc[t] = "health" /\ ~Blocked
    /\ ok => alive # {}
    /\ IF ok
       THEN /\ healthOk' = [healthOk EXCEPT ![t] = TRUE]
            /\ SpReturn(t, "True")
            /\ UNCHANGED reaped
       ELSE /\ UNCHANGED healthOk
            /\ reaped' = Reap(process)
            /\ IF process = 0 \/ ~poll_is_None(process)
               THEN SpReturn(t, "False")
               ELSE /\ spPc' = [spPc EXCEPT ![t] = "sleep"]
                    /\ UNCHANGED <<spRet, justStopped>>
    /\ UNCHANGED <<process, alive, ignoresTerm, terminated, nextChild, spOp,
                   spChild, polls, timedOut>>

\* asyncio.sleep(1) is over and the loop condition is evaluated.  expired:
\* the startup timeout has passed.
StartWake(t, expired) ==
    /\ spPc[t] = "sleep" /\ ~Blocked
    /\ IF expired \/ polls[t] >= MaxPolls
       THEN /\ StartTimeout(t)
            /\ UNCHANGED polls
       ELSE /\ polls' = [polls EXCEPT ![t] = polls[t] + 1]
            /\ spPc' = [spPc EXCEPT ![t] = "health"]
            /\ UNCHANGED <<process, alive, reaped, terminated, timedOut,
                           spRet, justStopped>>
    /\ UNCHANGED <<ignoresTerm, nextChild, spOp, spChild, healthOk>>

stop(t) ==
    /\ spPc[t] = "idle" /\ ~Blocked
    /\ spOp' = [spOp EXCEPT ![t] = "stop"]
    /\ stop_body(t, "None")
    /\ UNCHANGED <<ignoresTerm, nextChild, spChild, polls, healthOk,
                   timedOut>>

\* The child the blocked coroutine waits for has exited: wait() returns,
\* the handle is dropped and the method returns.
StopWaitReturn(t) ==
    /\ spPc[t] = "stop_wait"
    /\ process \notin alive
    /\ reaped' = reaped \cup {process}
    /\ process' = 0
    /\ spPc' = [spPc EXCEPT ![t] = "idle"]
    /\ justStopped' = (spOp[t] = "stop")
    /\ UNCHANGED <<alive, ignoresTerm, terminated, nextChild, spOp, spChild,
                   polls, healthOk, timedOut, spRet>>

\* A call of is_running(): its poll() sets returncode of an exited child.
call_is_running ==
    /\ ~Blocked
    /\ reaped' = Reap(process)
    /\ UNCHANGED <<process, alive, ignoresTerm, terminated, nextChild, spPc,
                   spOp, spChild, polls, healthOk, timedOut, spRet,
                   justStopped>>

\* A child exits by itself or is killed from outside.
ChildExit(c) ==
    /\ c \in alive
    /\ alive' = alive \ {c}
    /\ UNCHANGED <<process, reaped, ignoresTerm, terminated, nextChild, spPc,
                   spOp, spChild, polls, healthOk, timedOut, spRet,
                   justStopped>>

InitProc ==
    /\ process = 0
    /\ alive = {}
    /\ reaped = {}
    /\ ignoresTerm = {}
    /\ terminated = {}
    /\ nextChild = 1
    /\ spPc = [t \in Tasks |-> "idle"]
    /\ spOp = [t \in Tasks |-> "none"]
    /\ spChild = [t \in Tasks |-> 0]
    /\ polls = [t \in Tasks |-> 0]
    /\ healthOk = [t \in Tasks |-> FALSE]
    /\ timedOut = [t \in Tasks |-> FALSE]
    /\ spRet = [t \in Tasks |-> "none"]
    /\ justStopped = FALSE

\* The supervisor's steps leave the other subsystems alone.
spFrame == UNCHANGED <<mcpVars, pmVars, rtVars, evVars, rfVars, apVars, exVars, plVars, roVars>>

NextProc ==
    \/ \E t \in Tasks, spawnOk \in BOOLEAN, ig \in BOOLEAN :
          start(t, spawnOk, ig) /\ spFrame
    \/ \E t \in Tasks, ok \in BOOLEAN : HealthReply(t, ok) /\ spFrame
    \/ \E t \in Tasks, expired \in BOOLEAN : StartWake(t, expired) /\ spFrame
    \/ \E t \in Tasks : stop(t) /\ spFrame
    \/ \E t \in Tasks : StopWaitReturn(t) /\ spFrame
    \/ call_is_running /\ spFrame
    \/ \E c \in Children : ChildExit(c) /\ spFrame

\* ========================================================================
\* AgenticFramework.process_with_reflection (agentic_framework.py)
\* ========================================================================
\* Largest max_attempts a caller passes (the query endpoint accepts 1..5).
MaxAttempts == 3

\* The framework's max_retries, the default of the constructor and of the
\* setting agentic_max_retries.
max_retries == 3

\* The max_attempts argument; 0 stands for None, which `or` treats alike.
AttemptArgs == 0..MaxAttempts

\* `max_attempts or self.max_retries`.
effective_max_attempts(arg) == IF arg = 0 THEN max_retries ELSE arg

\* A loop condition that admits one attempt more than the budget.
loop_condition_inclusive(a, m) == a <= m

\* `while attempts < max_attempts`.
loop_condition(a, m) == a < m

\* `if reflection.goal_achieved or not reflection.needs_retry: break`.
should_break(reflection) ==
    reflection.goal_achieved \/ ~reflection.needs_retry

Statuses == {"success", "partial", "failed"}

NoAttemptResult == [attempt |-> 0, status |-> "none"]

NoOutcome == [kind |-> "none", result |-> NoAttemptResult]

\* The statements after the loop: all_results[-1]["result"] is returned; on
\* an empty list the index raises IndexError.
ReturnFinal(results) ==
    /\ rfPc' = "done"
    /\ rfOutcome' = IF results = <<>>
                    THEN [kind |-> "IndexError", result |-> NoAttemptResult]
                    ELSE [kind |-> "returned",
                          result |-> results[Len(results)].result]

\* The head of the while loop: the next attempt starts with plan(), or the
\* loop is left.
LoopHead(results) ==
    IF loop_condition(attempts, max_attempts)
    THEN /\ attempts' = attempts + 1
         /\ rfPc' = "plan"
         /\ UNCHANGED rfOutcome
    ELSE /\ ReturnFinal(results)
         /\ UNCHANGED attempts

process_with_reflection(arg) ==
    /\ rfPc \in {"idle", "done"}
    /\ max_attempts' = effective_max_attempts(arg)
    /\ attempts' = 0
    /\ current_query' = "original"
    /\ all_results' = <<>>
    /\ rfResult' = NoAttemptResult
    /\ rfImproved' = "none"
    /\ rfOutcome' = NoOutcome
    /\ rfPc' = "extract_goal"

\* extract_goal returns (it catches its own failures).
extract_goal ==
    /\ rfPc = "extract_goal"
    /\ LoopHead(all_results)
    /\ UNCHANGED <<max_attempts, current_query, all_results, rfResult,
                   rfImproved>>

\* plan() returns a plan, or raises what the router raised, which leaves
\* process_with_reflection.
plan(ok) ==
    /\ rfPc = "plan"
    /\ IF ok
       THEN /\ rfPc' = "execute"
            /\ UNCHANGED rfOutcome
       ELSE /\ rfPc' = "done"
            /\ rfOutcome' = [kind |-> "raised", result |-> NoAttemptResult]
    /\ UNCHANGED <<max_attempts, attempts, current_query, all_results,
                   rfResult, rfImproved>>

\* execute() returns a result; it turns every exception into "failed".
execute(status) ==
    /\ rfPc = "execute"
    /\ rfResult' = [attempt |-> attempts, status |-> status]
    /\ rfPc' = "reflect"
    /\ UNCHANGED <<max_attempts, attempts, current_query, all_results,
                   rfImproved, rfOutcome>>

\* reflect() returns an analysis; the attempt is recorded, and the loop is
\* left, or the query is improved, or the loop head is reached.
reflect(goal_achieved, needs_retry) ==
    LET reflection == [goal_achieved |-> goal_achieved,
                       needs_retry |-> needs_retry]
        results == Append(all_results,
                          [attempt |-> attempts, query |-> current_query,
                           result |-> rfResult, reflection |-> reflection])
    IN /\ rfPc = "reflect"
       /\ all_results' = results
       /\ IF should_break(reflection)
          THEN ReturnFinal(results) /\ UNCHANGED attempts
          ELSE IF attempts < max_attempts
          THEN rfPc' = "improve" /\ UNCHANGED <<attempts, rfOutcome>>
          ELSE LoopHead(results)
       /\ UNCHANGED <<max_attempts, current_query, rfResult, rfImproved>>

\* _improve_query returns the LLM's new query, or the original query when
\* the LLM call failed; the loop head follows.
improve_query(ok) ==
    /\ rfPc = "improve"
    /\ rfImproved' = IF ok THEN "improved" ELSE "original"
    /\ current_query' = IF ok THEN "improved" ELSE "original"
    /\ LoopHead(all_results)
    /\ UNCHANGED <<max_attempts, all_results, rfResult>>

InitReflect ==
    /\ rfPc = "idle"
    /\ max_attempts = max_retries
    /\ attempts = 0
    /\ current_query = "original"
    /\ all_results = <<>>
    /\ rfResult = NoAttemptResult
    /\ rfImproved = "none"
    /\ rfOutcome = NoOutcome

\* The framework's steps leave the other subsystems alone.
rfFrame == UNCHANGED <<mcpVars, pmVars, rtVars, evVars, spVars, apVars, exVars, plVars, roVars>>

NextReflect ==
    \/ \E arg \in AttemptArgs : process_with_reflection(arg) /\ rfFrame
    \/ extract_goal /\ rfFrame
    \/ \E ok \in BOOLEAN : plan(ok) /\ rfFrame
    \/ \E status \in Statuses : execute(status) /\ rfFrame
    \/ \E g \in BOOLEAN, r \in BOOLEAN : reflect(g, r) /\ rfFrame
    \/ \E ok \in BOOLEAN : improve_query(ok) /\ rfFrame

\* Every awaited call of the loop returns or raises: the LLM client and the
\* plugins work with timeouts.
ReflectFairness ==
    /\ WF_vars(extract_goal /\ rfFrame)
    /\ WF_vars((\E ok \in BOOLEAN : plan(ok)) /\ rfFrame)
    /\ WF_vars((\E status \in Statuses : execute(status)) /\ rfFrame)
    /\ WF_vars((\E g \in BOOLEAN, r \in BOOLEAN : reflect(g, r)) /\ rfFrame)
    /\ WF_vars((\E ok \in BOOLEAN : improve_query(ok)) /\ rfFrame)

\* ========================================================================
\* The Anthropic adapters (providers/anthropic_provider.py, providers/base.py,
\* core/llm/anthropic_provider.py)
\* ========================================================================
\* Most system messages in front of the user message.
MaxSystem == 2

\* A message content is a string, here a sequence of characters.
Contents == {<<>>, <<"a">>, <<"b">>}

SystemMessages == {[role |-> "system", content |-> c] : c \in Contents}

UserMessages == {[role |-> "user", content |-> c] : c \in Contents}

\* Zero or more system messages followed by one user message.
MessageSequences ==
    {Append(sys, u) : sys \in SeqsUpTo(SystemMessages, MaxSystem),
                      u \in UserMessages}

RECURSIVE join(_)
\* "\n".join(parts).
join(parts) ==
    IF parts = <<>> THEN <<>>
    ELSE IF Len(parts) = 1 THEN parts[1]
    ELSE parts[1] \o <<"\n">> \o join(Tail(parts))

is_system(m) == m.role = "system"

is_not_system(m) == m.role # "system"

\* [m.content for m in messages if role is system].
system_parts(messages) ==
    LET sys == SelectSeq(messages, is_system)
    IN [i \in 1..Len(sys) |-> sys[i].content]

\* [m for m in messages if role is not system].
user_messages(messages) == SelectSeq(messages, is_not_system)

\* A request body: whether it has the key "system", its value, and the
\* value of "messages".
Body(has_system, system, messages) ==
    [has_system |-> has_system, system |-> system, messages |-> messages]

NoBody == Body(FALSE, <<>>, <<>>)

\* AnthropicProvider.prepare_request of the server.
prepare_request(messages) ==
    Body(system_parts(messages) # <<>>, join(system_parts(messages)),
         user_messages(messages))

\* BaseProvider.generate: the normalization writes payload["system"] and
\* payload["messages"]; the ProviderRequest is then built from
\* payload["messages"] alone (it has no system field).
generate_request(messages) == user_messages(messages)

\* AnthropicProvider.complete of core/llm: every system message overwrites
\* system_message, and `if system_message:` skips an empty one.
complete_params(messages) ==
    LET sys == system_parts(messages)
        system_message == IF sys = <<>> THEN <<>> ELSE sys[Len(sys)]
    IN Body(system_message # <<>>, system_message, user_messages(messages))

\* provider.generate(payload) up to the call of self.call(request).
generate ==
    /\ apPc = "start"
    /\ apEntry' = "generate"
    /\ apRequest' = generate_request(apMessages)
    /\ apPc' = "call"
    /\ UNCHANGED <<apMessages, apBody>>

\* provider.call(request), from generate or directly with the messages:
\* the body is what prepare_request returns.
call ==
    /\ apPc \in {"start", "call"}
    /\ IF apPc = "start"
       THEN /\ apEntry' = "call"
            /\ apRequest' = apMessages
            /\ apBody' = prepare_request(apMessages)
       ELSE /\ apBody' = prepare_request(apRequest)
            /\ UNCHANGED <<apEntry, apRequest>>
    /\ apPc' = "sent"
    /\ UNCHANGED apMessages

\* llm_provider.complete(messages) of core/llm.
complete ==
    /\ apPc = "start"
    /\ apEntry' = "complete"
    /\ apBody' = complete_params(apMessages)
    /\ apPc' = "sent"
    /\ UNCHANGED <<apMessages, apRequest>>

\* No adapter call is under study.
InitAnthropicIdle ==
    /\ apMessages = <<>>
    /\ apPc = "idle"
    /\ apEntry = "none"
    /\ apRequest = <<>>
    /\ apBody = NoBody

\* An adapter is about to be called with some message sequence.
InitAnthropic ==
    /\ apMessages \in MessageSequences
    /\ apPc = "start"
    /\ apEntry = "none"
    /\ apRequest = <<>>
    /\ apBody = NoBody

\* The adapters' steps leave the other subsystems alone.
apFrame == UNCHANGED <<mcpVars, pmVars, rtVars, evVars, spVars, rfVars, exVars, plVars, roVars>>

NextAnthropic ==
    \/ generate /\ apFrame
    \/ call /\ apFrame
    \/ complete /\ apFrame

\* ========================================================================
\* Score extraction (proxy/evaluation.py)
\* ========================================================================
\* Longest LLM output considered, in words.
MaxTextLen == 3

Axes == {"A", "B"}

\* The ranking keyword of an axis as a word of the text.
KeywordOf(axis) == IF axis = "A" THEN "KA" ELSE "KB"

\* The numbers that occur in the texts considered.
NumberWords == {"5", "6", "50"}

\* The characters of a number.
digits(word) ==
    CASE word = "5" -> <<"5">> [] word = "6" -> <<"6">>
      [] word = "50" -> <<"5", "0">>

\* The value of a number.
number(word) ==
    CASE word = "5" -> 5 [] word = "6" -> 6 [] word = "50" -> 50

\* A text is a sequence of words separated by blanks: ranking keywords,
\* axis names, "=", some other word "w", a paragraph break "nn", or a
\* number.
Words == {"KA", "KB", "A", "B", "=", "w", "nn"} \cup NumberWords

Texts == SeqsUpTo(Words, MaxTextLen)

\* A keyword of the mapping: one that occurs as a word, or one that is
\* not a valid regular expression ("(").
MappingEntries ==
    {[name |-> a, keyword |-> k] : a \in Axes, k \in {"KA", "KB", "("}}

\* axis_keywords: a dictionary, so no axis name twice; its order is the
\* insertion order.
AxisKeywords ==
    {m \in SeqsUpTo(MappingEntries, Cardinality(Axes)) :
        \A i \in 1..Len(m), j \in 1..Len(m) : i # j => m[i].name # m[j].name}

\* int() of a one-digit string.
int(ch) ==
    CASE ch = "0" -> 0 [] ch = "1" -> 1 [] ch = "2" -> 2 [] ch = "3" -> 3
      [] ch = "4" -> 4 [] ch = "5" -> 5 [] ch = "6" -> 6 [] ch = "7" -> 7
      [] ch = "8" -> 8 [] ch = "9" -> 9

\* The character class [1-5] of every capturing group.
ScoreClass == {"1", "2", "3", "4", "5"}

\* What may stand between the anchor, the word at i, and the captured
\* digit, character c of the number at j: "nondigits" is [^0-9]*, "equals"
\* is \s*=\s* (and :, -), "sameline" is .*?, and "standalone" is
\* [^#\*]*?\b before a digit that \b follows.
GapOK(gap, text, i, j, c) ==
    CASE gap = "nondigits" ->
            /\ c = 1
            /\ \A k \in (i + 1)..(j - 1) : text[k] \notin NumberWords
      [] gap = "equals" -> c = 1 /\ j = i + 2 /\ text[i + 1] = "="
      [] gap = "sameline" -> \A k \in (i + 1)..(j - 1) : text[k] # "nn"
      [] gap = "standalone" -> Len(digits(text[j])) = 1

\* The digits of the text a group ([1-5]) can capture: word j, character c.
Captures(text) ==
    {h \in (1..Len(text)) \X (1..2) :
        /\ text[h[1]] \in NumberWords
        /\ h[2] <= Len(digits(text[h[1]]))
        /\ digits(text[h[1]])[h[2]] \in ScoreClass}

\* re.search(pattern, text) for a pattern "anchor gap ([1-5])": the group
\* of the leftmost match, the shortest one there; <<>> without a match.
search(text, anchor, gap) ==
    LET hits == {h \in (1..Len(text)) \X Captures(text) :
                    /\ h[1] < h[2][1]
                    /\ text[h[1]] = anchor
                    /\ GapOK(gap, text, h[1], h[2][1], h[2][2])}
        Before(h, g) ==
            \/ h[1] < g[1]
            \/ h[1] = g[1] /\ h[2][1] < g[2][1]
            \/ h[1] = g[1] /\ h[2][1] = g[2][1] /\ h[2][2] <= g[2][2]
    IN IF hits = {} THEN <<>>
       ELSE LET first == CHOOSE h \in hits : \A g \in hits : Before(h, g)
            IN <<digits(text[first[2][1]])[first[2][2]]>>

\* The paragraph (counted from 0) the word at position p is in.
ParagraphOf(text, p) == Cardinality({k \in 1..(p - 1) : text[k] = "nn"})

\* The last resort: the first paragraph that holds the axis name and a
\* one-digit number of [1-5] (\b([1-5])\b) gives that number.
paragraph_search(text, axis) ==
    LET hits == {j \in 1..Len(text) :
                    /\ text[j] \in ScoreClass
                    /\ text[j] \in NumberWords
                    /\ \E i \in 1..Len(text) :
                          /\ text[i] = axis
                          /\ ParagraphOf(text, i) = ParagraphOf(text, j)}
    IN IF hits = {} THEN <<>>
       ELSE <<text[CHOOSE j \in hits : \A g \in hits : j <= g]>>

\* The patterns in the order they are tried for an axis: the exact keyword
\* pattern, the keyword and axis-name patterns of the fallback list, the
\* section patterns; each is an anchor and a gap.
Patterns(entry) ==
    << [anchor |-> entry.keyword, gap |-> "nondigits"],
       [anchor |-> entry.keyword, gap |-> "equals"],
       [anchor |-> entry.name, gap |-> "equals"],
       [anchor |-> entry.name, gap |-> "sameline"],
       [anchor |-> entry.name, gap |-> "standalone"] >>

\* `if 1 <= score <= 5`.
valid_score(score) == 1 <= score /\ score <= 5

\* An AxisScore; score is <<>> for None, else <<n>>.
AxisScore(name, score) == [name |-> name, score |-> score]

\* An extraction that takes the first number after the keyword, whatever
\* it is.
axis_score_first_number(text, entry) ==
    LET hits == {j \in 1..Len(text) :
                    /\ text[j] \in NumberWords
                    /\ \E i \in 1..(j - 1) : text[i] = entry.keyword}
    IN IF hits = {} THEN AxisScore(entry.name, <<>>)
       ELSE AxisScore(entry.name,
                      <<number(text[CHOOSE j \in hits : \A g \in hits : j <= g])>>)

\* The body of the loop for one axis: the first pattern with a match whose
\* number is valid gives the score; then the paragraphs; else None.
axis_score(text, entry) ==
    LET tries == [k \in 1..Len(Patterns(entry)) |->
                     search(text, Patterns(entry)[k].anchor,
                            Patterns(entry)[k].gap)]
        found == {k \in 1..Len(tries) :
                     tries[k] # <<>> /\ valid_score(int(tries[k][1]))}
        para == paragraph_search(text, entry.name)
    IN IF found # {}
       THEN AxisScore(entry.name,
                      <<int(tries[CHOOSE k \in found : \A g \in found : k <= g][1])>>)
       ELSE IF para # <<>> /\ valid_score(int(para[1]))
       THEN AxisScore(entry.name, <<int(para[1])>>)
       ELSE AxisScore(entry.name, <<>>)

\* extract_multi_axis_scores: one AxisScore per axis; when a pattern does
\* not compile, re.error is caught and every axis gets None.
extract_multi_axis_scores(text, axis_keywords) ==
    IF \E k \in 1..Len(axis_keywords) : axis_keywords[k].keyword = "("
    THEN [k \in 1..Len(axis_keywords) |->
             AxisScore(axis_keywords[k].name, <<>>)]
    ELSE [k \in 1..Len(axis_keywords) |-> axis_score(text, axis_keywords[k])]

\* The proxy calls the extractor on the provider's text.
ExtractScores ==
    /\ exPc = "start"
    /\ exScores' = extract_multi_axis_scores(exText, exKeywords)
    /\ exPc' = "done"
    /\ UNCHANGED <<exText, exKeywords>>

\* No extraction is under study.
InitExtractIdle ==
    /\ exText = <<>>
    /\ exKeywords = <<>>
    /\ exPc = "idle"
    /\ exScores = <<>>

\* The extractor is about to be called on some text with some mapping.
InitExtract ==
    /\ exText \in Texts
    /\ exKeywords \in AxisKeywords
    /\ exPc = "start"
    /\ exScores = <<>>

\* The extractor's step leaves the other subsystems alone.
exFrame ==
    UNCHANGED <<mcpVars, pmVars, rtVars, evVars, spVars, rfVars, apVars,
                plVars, roVars>>

NextExtract == ExtractScores /\ exFrame

\* ========================================================================
\* The lifecycle of the plugin classes (plugins/*.py, plugin_interface.py)
\* ========================================================================
PluginClasses == {"echo", "calculator", "pdf_resume", "linkedin_external"}

\* Whether initialize of the class can raise: only the LinkedIn plugin's
\* does (no cookie, server setup failure, no server URL).
initialize_can_raise(class) == class = "linkedin_external"

\* Whether shutdown of the class can raise: the LinkedIn plugin's awaits
\* the client's __aexit__ and the supervisor's stop.
shutdown_can_raise(class) == class = "linkedin_external"

\* Whether shutdown of the class assigns self._initialized = False: the
\* LinkedIn plugin's shutdown has no such assignment.
shutdown_clears_flag(class) == class # "linkedin_external"

\* LinkedInExternalPlugin._setup_external_server, local mode, given how
\* process_manager.start() ended ("True", "False" or "raise"): the value
\* start() returns is discarded, only an exception becomes an
\* ExternalProcessError.
setup_external_server(started) ==
    IF started = "raise" THEN "ExternalProcessError" ELSE "None"

\* LinkedInExternalPlugin.initialize with a cookie, given how start()
\* ended: after the setup the client is created, a failing
\* initialize_session is logged only, and the flag is set.
linkedin_initialize(started) ==
    IF setup_external_server(started) = "None" THEN "initialized"
    ELSE setup_external_server(started)

\* plugin.initialize(config) is called.
plugin_initialize(class) ==
    /\ plPc[class] = "idle"
    /\ plPc' = [plPc EXCEPT ![class] = "initialize"]
    /\ UNCHANGED <<is_initialized, plLast>>

\* initialize returns, having set the flag as its last statement, or
\* raises before that.
plugin_initialize_done(class, ok) ==
    /\ plPc[class] = "initialize"
    /\ ok \/ initialize_can_raise(class)
    /\ plPc' = [plPc EXCEPT ![class] = "idle"]
    /\ is_initialized' = IF ok THEN [is_initialized EXCEPT ![class] = TRUE]
                         ELSE is_initialized
    /\ plLast' = IF ok THEN [plLast EXCEPT ![class] = "initialize"] ELSE plLast

\* plugin.shutdown() is called.
plugin_shutdown(class) ==
    /\ plPc[class] = "idle"
    /\ plPc' = [plPc EXCEPT ![class] = "shutdown"]
    /\ UNCHANGED <<is_initialized, plLast>>

\* shutdown returns or raises.
plugin_shutdown_done(class, ok) ==
    /\ plPc[class] = "shutdown"
    /\ ok \/ shutdown_can_raise(class)
    /\ plPc' = [plPc EXCEPT ![class] = "idle"]
    /\ is_initialized' = IF ok /\ shutdown_clears_flag(class)
                         THEN [is_initialized EXCEPT ![class] = FALSE]
                         ELSE is_initialized
    /\ plLast' = IF ok THEN [plLast EXCEPT ![class] = "shutdown"] ELSE plLast

\* Plugin.__init__ sets _initialized = False.
InitPlugins ==
    /\ is_initialized = [c \in PluginClasses |-> FALSE]
    /\ plPc = [c \in PluginClasses |-> "idle"]
    /\ plLast = [c \in PluginClasses |-> "none"]

\* The plugins' steps leave the other subsystems alone.
plFrame ==
    UNCHANGED <<mcpVars, pmVars, rtVars, evVars, spVars, rfVars, apVars,
                exVars, roVars>>

NextPlugins ==
    \/ \E c \in PluginClasses : plugin_initialize(c) /\ plFrame
    \/ \E c \in PluginClasses, ok \in BOOLEAN :
          plugin_initialize_done(c, ok) /\ plFrame
    \/ \E c \in PluginClasses : plugin_shutdown(c) /\ plFrame
    \/ \E c \in PluginClasses, ok \in BOOLEAN :
          plugin_shutdown_done(c, ok) /\ plFrame

\* ========================================================================
\* SemanticRouter.route and execute_single (semantic_router.py)
\* ========================================================================
\* Kinds of query: _infer_plugin_action looks for the words company,
\* companies, organization, firm.
Queries == {"profile", "company"}

\* The value of the "plugin" key of the LLM's JSON: a discoverable plugin,
\* a name no plugin has, or no such key (data.get gives "").
LLMPluginKeys == PluginNames \cup {""}

\* Keys of the "parameters" object of the LLM's JSON.
LLMParamKeys == {"username", "linkedin_username"}

\* What llm_provider.complete gives: an exception, or a text that starts
\* with a code fence or not and holds a JSON object or not.
LLMReplies ==
    [exc : {FALSE}, fenced : BOOLEAN, json : BOOLEAN,
     plugin : LLMPluginKeys, parameters : SUBSET LLMParamKeys]
    \cup {[exc |-> TRUE, fenced |-> FALSE, json |-> FALSE, plugin |-> "",
           parameters |-> {}]}

NoDecision == [plugin_name |-> "none", extracted_params |-> {}]

NoRoutedRequest == [action |-> "none", parameters |-> {}]

\* The first cleaning of route: `content` is assigned only when the text
\* starts with a code fence, and `content = content.strip()` follows in any
\* case, so a text without the fence raises UnboundLocalError.
first_strip_raises(reply) == ~reply.fenced

\* _infer_plugin_action: for linkedin_external the action is added to the
\* parameters, and linkedin_username is copied from username for a profile
\* query.  The parameters are modelled by their keys.
infer_plugin_action(query, decision) ==
    IF decision.plugin_name = "linkedin_external"
    THEN [decision EXCEPT !.extracted_params =
             decision.extracted_params \cup {"action"}
             \cup (IF query = "profile"
                      /\ "username" \in decision.extracted_params
                   THEN {"linkedin_username"} ELSE {})]
    ELSE decision

\* The try block of route once the LLM has replied: every exception in it
\* becomes a RoutingDecisionError; the decision takes data.get("plugin", "")
\* as it is.
route_decision(avail, query, reply) ==
    IF reply.exc \/ first_strip_raises(reply) \/ ~reply.json
    THEN [raises |-> TRUE, decision |-> NoDecision]
    ELSE [raises |-> FALSE,
          decision |-> infer_plugin_action(query,
                          [plugin_name |-> reply.plugin,
                           extracted_params |-> reply.parameters])]

\* execute_single(query) calls route(query): the plugin metadata is read
\* and, unless there is none, the LLM is asked.
route(avail, query) ==
    /\ roPc = "idle"
    /\ roAvailable' = avail
    /\ roQuery' = query
    /\ roDecision' = NoDecision
    /\ roRequest' = NoRoutedRequest
    /\ roTarget' = "none"
    /\ IF avail = {}
       THEN /\ roPc' = "done"
            /\ roOutcome' = "NoPluginsAvailableError"
       ELSE /\ roPc' = "await_llm"
            /\ roOutcome' = "none"

\* The LLM's reply arrives and route returns its decision or raises.
RouteReply(reply) ==
    /\ roPc = "await_llm"
    /\ LET r == route_decision(roAvailable, roQuery, reply)
       IN IF r.raises
          THEN /\ roPc' = "done"
               /\ roOutcome' = "RoutingDecisionError"
               /\ UNCHANGED roDecision
          ELSE /\ roPc' = "routed"
               /\ roOutcome' = "decision"
               /\ roDecision' = r.decision
    /\ UNCHANGED <<roAvailable, roQuery, roRequest, roTarget>>

\* execute_single after route: the action is taken out of the parameters
\* (the plugin name stands in for a missing one), the PluginRequest is
\* constructed and execute_plugin is called with the decision's name.
execute_single ==
    /\ roPc = "routed"
    /\ roRequest' =
          [action |-> IF "action" \in roDecision.extracted_params
                      THEN "inferred" ELSE roDecision.plugin_name,
           parameters |-> roDecision.extracted_params \ {"action"}]
    /\ roTarget' = roDecision.plugin_name
    /\ roPc' = "done"
    /\ UNCHANGED <<roAvailable, roQuery, roDecision, roOutcome>>

\* The caller goes on to its next query.
route_next ==
    /\ roPc = "done"
    /\ roPc' = "idle"
    /\ UNCHANGED <<roAvailable, roQuery, roDecision, roOutcome, roRequest,
                   roTarget>>

InitRoute ==
    /\ roPc = "idle"
    /\ roAvailable = {}
    /\ roQuery = "profile"
    /\ roDecision = NoDecision
    /\ roOutcome = "none"
    /\ roRequest = NoRoutedRequest
    /\ roTarget = "none"

\* The router's routing steps leave the other subsystems alone.
roFrame == UNCHANGED <<mcpVars, pmVars, rtVars, evVars, spVars, rfVars, apVars, exVars, plVars>>

NextRoute ==
    \/ \E avail \in SUBSET Discoverable, query \in Queries :
          route(avail, query) /\ roFrame
    \/ \E reply \in LLMReplies : RouteReply(reply) /\ roFrame
    \/ execute_single /\ roFrame
    \/ route_next /\ roFrame

\* ========================================================================
\* Specifications
\* ========================================================================
\* The state of the subsystems other than the MCP client and the plugin
\* manager.
InitOthers ==
    /\ InitRouter /\ InitEval /\ InitProc /\ InitReflect
    /\ InitAnthropicIdle /\ InitExtractIdle /\ InitPlugins /\ InitRoute

Init == InitMCP /\ InitPMServer /\ InitOthers

SpecMCP == Init /\ [][NextMCP]_vars

\* The plugin manager of either copy, everything else at rest.
InitEitherManager == InitMCP /\ InitPM /\ InitOthers

SpecPM == InitEitherManager /\ [][NextPM]_vars

SpecRouter == Init /\ [][NextRouter]_vars

SpecEval == Init /\ [][NextEval]_vars

SpecProc == Init /\ [][NextProc]_vars

SpecReflect == Init /\ [][NextReflect]_vars /\ ReflectFairness

\* An adapter call is about to be made, everything else at rest.
InitAdapterCall ==
    /\ InitMCP /\ InitPMServer /\ InitRouter /\ InitEval /\ InitProc
    /\ InitReflect /\ InitAnthropic /\ InitExtractIdle /\ InitPlugins
    /\ InitRoute

SpecAnthropic == InitAdapterCall /\ [][NextAnthropic]_vars

\* An extraction is about to be made, everything else at rest.
InitExtraction ==
    /\ InitMCP /\ InitPMServer /\ InitRouter /\ InitEval /\ InitProc
    /\ InitReflect /\ InitAnthropicIdle /\ InitExtract /\ InitPlugins
    /\ InitRoute

SpecExtract == InitExtraction /\ [][NextExtract]_vars

SpecPlugins == Init /\ [][NextPlugins]_vars

SpecRoute == Init /\ [][NextRoute]_vars

\* ------------------------------------------------------------------------
\* One MCP client shared by concurrent API requests: the plugin instance and
\* its client live in the process-wide plugin manager, and every request
\* handler is a coroutine of the same event loop.  No lock guards the client.
\* ------------------------------------------------------------------------
Callers == 1..NCallers

InitMCPShared ==
    /\ session = "none"
    /\ session_id = 0
    /\ initialized = FALSE
    /\ pc = [t \in Callers |-> "idle"]
    /\ op = [t \in Callers |-> "none"]
    /\ attempt = [t \in Callers |-> 0]
    /\ result = [t \in Callers |-> NoResult]
    /\ lastSent = NoRequest
    /\ hs = [st |-> "none", by |-> 0]
    /\ lastIssued = [seen |-> FALSE, sid |-> 0, id |-> 0]

NextMCPShared ==
    \/ aenter /\ mcpFrame
    \/ aexit /\ mcpFrame
    \/ close /\ mcpFrame
    \/ \E t \in Callers : initialize_session(t) /\ mcpFrame
    \/ \E t \in Callers : list_tools(t) /\ mcpFrame
    \/ \E t \in Callers : call_tool(t) /\ mcpFrame
    \/ \E t \in Callers, r \in Replies : InitializeReply(t, r) /\ mcpFrame
    \/ \E t \in Callers, r \in PlainReplies :
          InitializedReply(t, r) /\ mcpFrame
    \/ \E t \in Callers, r \in PlainReplies :
          ListToolsReply(t, r) /\ mcpFrame
    \/ \E t \in Callers : ListToolsWake(t) /\ mcpFrame
    \/ \E t \in Callers, r \in PlainReplies : CallToolReply(t, r) /\ mcpFrame
    \/ \E t \in Callers : CallToolWake(t) /\ mcpFrame

InitSharedClient == InitMCPShared /\ InitPMServer /\ InitOthers

SpecMCPShared == InitSharedClient /\ [][NextMCPShared]_vars

\* The supervisor under the scheduling the event loop gives: a coroutine
\* whose awaited call has returned is resumed, a health check is answered
\* or times out, a sleep ends.  Nothing makes a child exit, and nothing
\* makes a caller call start, stop or is_running.
ProcFairness ==
    \A t \in Tasks :
        /\ WF_vars(StopWaitReturn(t) /\ spFrame)
        /\ WF_vars((\E ok \in BOOLEAN : HealthReply(t, ok)) /\ spFrame)
        /\ WF_vars((\E expired \in BOOLEAN : StartWake(t, expired)) /\ spFrame)

SpecProcFair == Init /\ [][NextProc]_vars /\ ProcFairness

\* One plugin manager used by NCallers concurrent API requests (the API
\* module holds a single global PluginManager).
InitPMShared == InitManager(Callers) /\ pmCopy = "server"

\* The concurrent requests studied all name the same plugin.
SharedNames == {"calculator"}

SharedRequests == {req \in PluginRequests : req.name \in SharedNames}

NextPMShared ==
    \/ discover_plugins /\ pmFrame
    \/ \E t \in Callers, n \in SharedNames : load_plugin(t, n) /\ pmFrame
    \/ \E t \in Callers, req \in SharedRequests :
          execute_plugin(t, req) /\ pmFrame
    \/ \E t \in Callers, ok \in BOOLEAN : LoadDone(t, ok) /\ pmFrame
    \/ \E t \in Callers, out \in ExecuteOutcomes :
          ExecuteDone(t, out) /\ pmFrame
    \/ \E t \in Callers, n \in SharedNames : unload_plugin(t, n) /\ pmFrame
    \/ \E t \in Callers, ok \in BOOLEAN : UnloadDone(t, ok) /\ pmFrame
    \/ \E t \in Callers, nxt \in NextNames : reload_plugins(t, nxt) /\ pmFrame
    \/ \E t \in Callers, ok \in BOOLEAN, nxt \in NextNames :
          ReloadShutdownDone(t, ok, nxt) /\ pmFrame

InitSharedManager == InitMCP /\ InitPMShared /\ InitOthers

SpecPMShared == InitSharedManager /\ [][NextPMShared]_vars

\* ========================================================================
\* Properties of the MCP client
\* ========================================================================
\* Coroutine t hands a request to the transport in this step: it moves to
\* the state in which it awaits the reply to that request.
Sends(t, awaiting) == pc[t] # pc'[t] /\ pc'[t] \in awaiting

SendsTool(t) == Sends(t, {"await_list", "await_call"})

SendsAfterInitialize(t) ==
    Sends(t, {"await_initialized", "await_list", "await_call"})

\* C1: no tools/list or tools/call request is sent unless the notification
\* following the most recent initialize request has been sent, and none is
\* sent after a handshake that failed part-way.
C1_ToolsOnlyAfterNotification ==
    [][\A t \in Tasks :
          SendsTool(t) => hs.st \in {"notifSent", "complete"}]_vars

\* C7: when every one of the N attempts of call_tool has failed, call_tool
\* returns (does not raise) a response with the error flag set and a
\* non-empty content.
C7_ExhaustedCallToolReturnsError ==
    \A t \in Tasks :
        (op[t] = "call_tool" /\ pc[t] = "idle" /\ result[t].exhausted)
            => /\ result[t].kind = "return"
               /\ result[t].isError
               /\ result[t].content # <<>>

\* C8: list_tools never raises on a transport failure: it retries and, when
\* every attempt has failed, returns the empty list.
C8_ListToolsNeverThrows ==
    \A t \in Tasks :
        (op[t] = "list_tools" /\ pc[t] = "idle")
            => /\ ~(result[t].kind = "raise" /\ result[t].exc = "ClientError")
               /\ (result[t].exhausted =>
                      result[t].kind = "return" /\ result[t].content = <<>>)

\* C9: initialize_session (called directly or from list_tools) on a client
\* whose session is already initialized sends no further initialize request
\* and leaves the session id and the flag unchanged.
C9_InitializeSessionIdempotent ==
    [][\A t \in Tasks :
          (initialized /\ pc[t] = "idle"
             /\ op'[t] \in {"initialize_session", "list_tools"})
          => /\ pc'[t] # "await_initialize"
             /\ session_id' = session_id
             /\ initialized' = initialized]_vars

\* C10 (as claimed): every request sent after an initialize response has
\* been received carries the session-id header, holding the session id of
\* the current session (the one the latest initialize response opened).
C10_HeaderHoldsCurrentSession ==
    [][\A t \in Tasks :
          (SendsAfterInitialize(t) /\ lastIssued'.seen)
          => lastSent'.hdr # 0 /\ lastSent'.hdr = lastIssued'.sid]_vars

\* C10 (amended): every request sent after an initialize response has been
\* received carries the session-id header exactly when some initialize
\* response so far supplied a session id, and the header then holds the id
\* most recently supplied.
C10_HeaderHoldsLastIssuedId ==
    [][\A t \in Tasks :
          (SendsAfterInitialize(t) /\ lastIssued'.seen)
          => lastSent'.hdr = lastIssued'.id]_vars

\* A tools/call request is on the wire with the id of the second session,
\* after an initialize response without a session-id header.
C10_Witness ==
    /\ lastSent.m = CALL_TOOL
    /\ lastSent.hdr = 2
    /\ lastIssued.seen
    /\ lastIssued.sid = 0
    /\ \E t \in Tasks : pc[t] = "await_call"

\* ========================================================================
\* Properties of the plugin manager
\* ========================================================================
\* C2: if validate_request returns false for the request of execute_plugin,
\* execute_plugin raises PluginValidationError and plugin.execute is not
\* called for that request; so execute is only ever called for a request
\* that validate_request accepts.
C2_InvalidRequestNeverExecuted ==
    \A t \in Tasks :
        /\ validateReturned[t] = "false"
              => pmRes[t] = "PluginValidationError" /\ ~executeCalled[t]
        /\ executeCalled[t] => validate_request(pmReq[t].name, pmReq[t])

\* execute_plugin has raised PluginValidationError for a request to a
\* loaded plugin that lacks a required parameter.
C2_Witness ==
    \E t \in Tasks :
        /\ pmOp[t] = "execute_plugin"
        /\ pmReq[t].name \in loaded_plugins
        /\ ~validate_request(pmReq[t].name, pmReq[t])
        /\ validateReturned[t] = "false"
        /\ pmRes[t] = "PluginValidationError"

\* ========================================================================
\* Properties of multi-step execution
\* ========================================================================
\* Some step i of the plan depends on a step j >= i.
HasBadDependency(steps) ==
    \E i \in 1..Len(steps) : \E j \in steps[i].depends_on : j >= i - 1

\* C3: for a plan with a dependency on the same or a later step, no plugin
\* is invoked for any step of the plan.
C3_BadPlanRejectedBeforeAnyStep ==
    HasBadDependency(rtPlan) => rtInvoked = <<>>

C4_EnrichmentFailureIsolated ==
    (evPc = "done" /\ evFailed)
        => /\ evProviderCalled
           /\ evOutcome = "response" => "ENRICHMENT LOG" \in evText

\* ========================================================================
\* Properties of the process supervisor
\* ========================================================================
\* C5: once stop() has returned (and no other supervisor method has
\* returned or spawned since), is_running() is false.
C5_NotRunningAfterStop ==
    justStopped => ~is_running

\* stop() has returned after terminating the running child it held, and
\* has dropped the handle.
C5_Witness ==
    /\ justStopped
    /\ \E t \in Tasks :
          spOp[t] = "stop" /\ spPc[t] = "idle" /\ spRet[t] = "None"
    /\ terminated # {}
    /\ process = 0

\* C6: when start() has spawned a child and returned without any of its
\* health checks succeeding, in particular after the startup timeout, it
\* has returned False and the child it spawned is no longer alive.
C6_FailedStartLeavesNoChild ==
    \A t \in Tasks :
        (spOp[t] = "start" /\ spPc[t] = "idle" /\ spChild[t] # 0
           /\ ~healthOk[t])
        => spRet[t] = "False" /\ spChild[t] \notin alive

\* start() has returned False after the timeout, and the child it spawned
\* was terminated while running.
C6_Witness ==
    \E t \in Tasks :
        /\ spOp[t] = "start" /\ spPc[t] = "idle"
        /\ timedOut[t] /\ ~healthOk[t]
        /\ spChild[t] \in terminated
        /\ spRet[t] = "False"

\* ========================================================================
\* Properties of a shared MCP client
\* ========================================================================
\* The coroutines whose request is on the wire, its response not yet
\* received.
InFlight ==
    {t \in DOMAIN pc : pc[t] \in {"await_initialize", "await_initialized",
                                  "await_list", "await_call"}}

\* C11: within one MCP session at most one JSON-RPC request is in flight,
\* also when several concurrent API requests use the same client.
C11_OneRequestInFlight ==
    Cardinality(InFlight) <= 1

\* ========================================================================
\* Properties of the plugin manager's lifecycle
\* ========================================================================
\* The coroutines that are inside plugin.initialize for the name.
Initializing(n) ==
    {t \in DOMAIN pmPc : pmPc[t] = "initializing" /\ pmReq[t].name = n}

\* The coroutines that are inside plugin.execute for the name.
Executing(n) ==
    {t \in DOMAIN pmPc : pmPc[t] = "executing" /\ pmReq[t].name = n}

\* The coroutines that are inside plugin.shutdown for the name.
ShuttingDown(n) ==
    {t \in DOMAIN pmPc : /\ pmPc[t] \in {"shutting_down", "reload_shutdown"}
                         /\ pmReq[t].name = n}

\* C12: for one plugin name the lifecycle operations exclude one another:
\* never two initializations at once, and no initialization or execution
\* while a shutdown of that name is in progress.
C12_LifecycleMutuallyExclusive ==
    \A n \in PluginNames :
        /\ Cardinality(Initializing(n)) <= 1
        /\ ShuttingDown(n) # {} => Initializing(n) = {} /\ Executing(n) = {}

\* C13: load_plugin for a name that is already in the loaded registry
\* returns the cached instance, constructs nothing and initializes nothing.
C13_LoadedNameReturnsCachedInstance ==
    \A t \in Tasks :
        pmOp[t] = "load_plugin" /\ pmPc[t] = "idle" /\ pmWasLoaded[t]
            => pmRes[t] = "plugin" /\ ~pmConstructed[t]

\* C14: when plugin.initialize raises inside load_plugin, the call ends with
\* PluginInitializationError and the loaded registry is what it was; and a
\* load_plugin for an available name that is not in the registry constructs
\* an instance and initializes it.
C14_FailedInitializeNotCached ==
    [][\A t \in Tasks :
          /\ LoadDone(t, FALSE)
                => /\ pmRes'[t] = "PluginInitializationError"
                   /\ loaded_plugins' = loaded_plugins
          /\ \A n \in available_plugins \ loaded_plugins :
                load_plugin(t, n)
                    => pmPc'[t] = "initializing" /\ pmConstructed'[t]]_vars

\* A load_plugin has ended with PluginInitializationError and its plugin,
\* still available, is not in the loaded registry.
C14_Witness ==
    \E t \in Tasks :
        /\ pmOp[t] = "load_plugin"
        /\ pmPc[t] = "idle"
        /\ pmRes[t] = "PluginInitializationError"
        /\ pmConstructed[t]
        /\ pmReq[t].name \in available_plugins \ loaded_plugins

\* C15: whatever plugin.execute raises, execute_plugin raises
\* PluginExecutionError; no other exception type leaves the execute step.
C15_ExecuteErrorsWrapped ==
    \A t \in Tasks :
        executeRaised[t] # "none" => pmRes[t] = "PluginExecutionError"

\* C16: when reload_plugins has returned, shutdown has been called on every
\* plugin that was loaded, the loaded registry is empty, also when a
\* shutdown raised, and available_plugins is the result of the discovery.
C16_ReloadEmptiesLoadedRegistry ==
    \A t \in Tasks :
        pmOp[t] = "reload_plugins" /\ pmPc[t] = "idle"
            => /\ pmShutdownCalled[t] = pmSnapshot[t]
               /\ loaded_plugins = {}
               /\ available_plugins = Discoverable

\* ========================================================================
\* Properties of the supervisor's stop
\* ========================================================================
\* C17: a stop() that has sent the termination signal to a running child
\* returns, with the child dead, also when the child ignores the signal.
C17_StopReturnsWithChildDead ==
    \A t \in Tasks :
        (spPc[t] = "stop_wait")
            ~> (spPc[t] = "idle" /\ terminated \cap alive = {})

\* ========================================================================
\* Properties of the reflection loop
\* ========================================================================
\* The attempt recorded last.
LastAttempt == all_results[Len(all_results)]

\* C19: process_with_reflection ends; it makes at most max_attempts (by
\* default max_retries = 3) attempts and returns the result of the last one;
\* an attempt after the first is started only from _improve_query, with the
\* query it returned, after a reflection that asked for a retry without the
\* goal achieved and with attempts left.
C19_ReflectionLoopBounded ==
    /\ [](/\ attempts <= max_attempts
          /\ max_attempts <= IF MaxAttempts > max_retries
                             THEN MaxAttempts ELSE max_retries
          /\ (rfPc = "done" /\ rfOutcome.kind = "returned")
                => /\ attempts >= 1
                   /\ rfOutcome.result = LastAttempt.result
                   /\ rfOutcome.result.attempt = attempts)
    /\ [][(attempts' = attempts + 1 /\ attempts >= 1)
             => /\ rfPc = "improve"
                /\ LastAttempt.attempt = attempts
                /\ LastAttempt.reflection.needs_retry
                /\ ~LastAttempt.reflection.goal_achieved
                /\ attempts < max_attempts
                /\ current_query' = rfImproved']_vars
    /\ (rfPc \notin {"idle", "done"}) ~> (rfPc = "done")

\* The loop has used up a budget of at least two attempts and returned the
\* last attempt's result although that attempt's reflection asked for a
\* retry.
C19_Witness ==
    /\ rfPc = "done"
    /\ rfOutcome.kind = "returned"
    /\ attempts = max_attempts
    /\ attempts >= 2
    /\ LastAttempt.reflection.needs_retry
    /\ ~LastAttempt.reflection.goal_achieved
    /\ rfOutcome.result = LastAttempt.result

\* ========================================================================
\* Properties of the Anthropic adapters
\* ========================================================================
\* C20: the body sent for a sequence of system messages followed by one user
\* message has "system" exactly when there are system messages, equal to
\* their contents joined with newlines, and "messages" equal to the
\* non-system messages in their order.
C20_SystemSplit ==
    apPc = "sent"
        => /\ apBody.has_system = (system_parts(apMessages) # <<>>)
           /\ apBody.has_system
                 => apBody.system = join(system_parts(apMessages))
           /\ apBody.messages = user_messages(apMessages)

\* ========================================================================
\* Properties of score extraction
\* ========================================================================
\* C21: the extractor returns one AxisScore per axis of the mapping, in the
\* mapping's order, and each score is None or an integer from 1 to 5.
C21_ScoresWithinBounds ==
    exPc = "done"
        => /\ Len(exScores) = Len(exKeywords)
           /\ \A k \in 1..Len(exScores) :
                 /\ exScores[k].name = exKeywords[k].name
                 /\ \/ exScores[k].score = <<>>
                    \/ /\ Len(exScores[k].score) = 1
                       /\ exScores[k].score[1] \in 1..5

\* For a text that holds a 6 before a 5, the extractor has passed over the
\* 6 and returned 5 for one axis and None for the other.
C21_Witness ==
    /\ exPc = "done"
    /\ Len(exScores) = 2
    /\ \E i \in 1..Len(exText), j \in 1..Len(exText) :
          i < j /\ exText[i] = "6" /\ exText[j] = "5"
    /\ \E k \in 1..2 : exScores[k].score = <<5>>
    /\ \E k \in 1..2 : exScores[k].score = <<>>

\* ========================================================================
\* Properties of the plugins' lifecycle
\* ========================================================================
\* C22: for every plugin, is_initialized is false before initialize has
\* completed, true when initialize was the last lifecycle method to
\* complete, and false when shutdown was.
C22_InitializedFollowsLifecycle ==
    \A c \in PluginClasses :
        /\ plLast[c] = "none" => ~is_initialized[c]
        /\ plLast[c] = "initialize" => is_initialized[c]
        /\ plLast[c] = "shutdown" => ~is_initialized[c]

\* ========================================================================
\* Properties of the retry delays
\* ========================================================================
\* The delay the documentation gives after the k-th failed attempt, in half
\* seconds: min(2^(k-1), 60) seconds.
DocumentedDelay(k) ==
    IF 2 ^ k < 120 THEN 2 ^ k ELSE 120

\* C23: in list_tools and in call_tool, the delay slept after the k-th
\* failed attempt (k from 1) is min(2^(k-1), 60) seconds, and no delay is
\* slept after the final attempt.
C23_BackoffDelays ==
    \A t \in Tasks :
        sleeping(t)
        => /\ retry_delay(attempt[t]) = DocumentedDelay(attempts_made(t))
           /\ attempts_made(t) < DEFAULT_MAX_RETRIES

\* ========================================================================
\* Properties of the retries of call_tool
\* ========================================================================
\* The content call_tool returns for a body the SSE parser could not parse.
UnparsedContent ==
    <<"Error: " \o parse_mcp_result("empty").error_msg>>

\* C24: a tools/call attempt that ends in a failed request or in an SSE
\* body that cannot be parsed is followed by another attempt while fewer
\* than N attempts were made: call_tool ends before its N-th attempt only
\* with a parsed response.
C24_FailedAttemptIsRetried ==
    \A t \in Tasks :
        (/\ op[t] = "call_tool"
         /\ pc[t] = "idle"
         /\ attempt[t] \in 1..(DEFAULT_MAX_RETRIES - 1)
         /\ result[t].kind # "none")
            => /\ ~(result[t].kind = "raise" /\ result[t].exc = "ClientError")
               /\ result[t].content # UnparsedContent

\* ========================================================================
\* Properties of a child that dies during startup
\* ========================================================================
\* start() of coroutine t has returned after it found, while polling, that
\* the child it spawned had exited.
StartSawChildExit(t) ==
    /\ spOp[t] = "start" /\ spPc[t] = "idle"
    /\ spRet[t] # "none"
    /\ spChild[t] # 0 /\ spChild[t] \notin alive
    /\ ~healthOk[t] /\ ~timedOut[t]

\* C25: when the child exits while start() polls for health, start() ends
\* with an error its caller observes, and the profile-fetch plugin's
\* initialize does not complete successfully.
C25_ChildExitFailsInitialize ==
    \A t \in Tasks :
        StartSawChildExit(t)
        => /\ spRet[t] \notin {"True", "False"}
           /\ linkedin_initialize(spRet[t]) # "initialized"

\* ========================================================================
\* Properties of PluginManager.shutdown
\* ========================================================================
\* C26: PluginManager.shutdown() completes without raising, also when no
\* file watcher was ever started: the shutdown in the cleanup of an
\* evaluation whose manager has hot reload off raises nothing.
C26_ShutdownCompletesWithoutRaising ==
    (evPc = "done" /\ ev_observer = "None") => evOutcome # "AttributeError"

\* ========================================================================
\* Properties of routing
\* ========================================================================
\* C27: route never returns a decision whose plugin name is not among the
\* available plugins, and no PluginRequest is constructed for such a name.
C27_UnknownPluginRejected ==
    /\ roOutcome = "decision" => roDecision.plugin_name \in roAvailable
    /\ roRequest # NoRoutedRequest => roTarget \in roAvailable

\* The number written right after the ranking keyword of axis k of the
\* mapping is larger than 5.
LargeNumberAfterKeyword(k) ==
    \E i \in 1..(Len(exText) - 1) :
        /\ exText[i] = exKeywords[k].keyword
        /\ exText[i + 1] \in NumberWords
        /\ number(exText[i + 1]) > 5

\* C28: a number larger than 5 written after an axis's ranking keyword is
\* discarded, no digit of it being taken as the score: when the text holds
\* no number of 1..5 at all, that axis gets null.
C28_LargeNumbersDiscarded ==
    exPc = "done"
    => \A k \in 1..Len(exScores) :
          (/\ LargeNumberAfterKeyword(k)
           /\ \A j \in 1..Len(exText) :
                 exText[j] \in NumberWords => number(exText[j]) > 5)
              => exScores[k].score = <<>>

\* ========================================================================
\* Properties of the resume parse
\* ========================================================================
\* process_pdf_enrichment has been run in this evaluation.
ResumeParseRun ==
    \E k \in 1..Len(enrichment_log) :
        \E o \in PluginOutcomes :
            enrichment_log[k] = process_enrichment("pdf", o).log[1]

\* C29: when enrichment is enabled and the request carries a pdf URL, the
\* resume-parse plugin is called with it, with or without a source URL:
\* once the enrichment phase of such an evaluation is over with no step of
\* it failed, the resume parse has been run.
C29_PdfUrlIsParsed ==
    (/\ evPc \in {"provider", "done"}
     /\ evReq.use_plugin /\ evReq.pdf_url
     /\ ~evFailed)
        => ResumeParseRun

\* ========================================================================
\* Properties of the supervisor's children
\* ========================================================================
\* C30: a supervisor never has two live children: a start() called while
\* the child it holds is running returns True and spawns nothing, and at
\* most one child is alive at any time.
C30_AtMostOneChildAlive ==
    /\ [](Cardinality(alive) <= 1)
    /\ [][\A t \in Tasks :
             (is_running /\ \E spawnOk \in BOOLEAN, ig \in BOOLEAN :
                               start(t, spawnOk, ig))
                 => /\ spRet'[t] = "True"
                    /\ alive' = alive /\ nextChild' = nextChild]_vars

\* start() has returned True without spawning, the child held by the
\* supervisor being alive.
C30_Witness ==
    \E t \in Tasks :
        /\ spOp[t] = "start" /\ spPc[t] = "idle"
        /\ spRet[t] = "True" /\ spChild[t] = 0
        /\ is_running /\ alive = {process}

====
